---- MODULE Spec2Model ----
(***************************************************************************)
(* Plan-execution engine of CHAOS: the ExecutionState ledger               *)
(* (chaos/core/state.py), the SensemakerAgent step tracking                *)
(* (chaos/agents/sensemaker.py) and the ExecutionEngine loop               *)
(* (chaos/core/execution.py).                                              *)
(*                                                                         *)
(* Two specifications:                                                     *)
(*   Spec       one run of ExecutionEngine.execute_plan, the decision,     *)
(*              human and retrieval collaborators being nondeterministic;  *)
(*   SpecState  arbitrary sequences of calls of the ExecutionState API.    *)
(***************************************************************************)
EXTENDS Integers, Sequences, FiniteSets, TLC

(* ------------------------------ bounds --------------------------------- *)
\* highest step number the decision collaborator names
MaxStep == 2
\* largest max_step_attempts configured (0..MaxStepAttempts are explored)
MaxStepAttempts == 2
\* max_code_retries configured: attempts of one retrieval
MaxCodeRetries == 3
\* number of decision calls (sensemaker.process) explored in one run; after
\* the last of them only the two returns of execute_plan are followed
MaxTurns == 3
\* number of entries recorded in a run of ExecutionState calls (SpecState)
MaxEntries == 2

(* ------------------------------ values --------------------------------- *)
\* Python None
None == "<None>"
\* initial value of last_step in execute_plan (None; step numbers are >= 1)
NoStep == 0

Steps == 1..MaxStep
\* result strings of a successful retrieval: a plain value and a null-like
\* value
Results == {"42.5", "nan"}
\* error strings of a failed retrieval
Errors == {"err1"}
\* request texts: the collaborator's request, its proposed correction, the
\* human-edited text, and the empty text a human may enter
ExecRequest == "req"
ProposedFix == "fix"
EditedTexts == {"edited", ""}

\* params["code"] the retrieval collaborator generates for a request
CodeOf(request) ==
    CASE request = "req" -> "code_req"
      [] request = "fix" -> "code_fix"
      [] request = "edited" -> "code_edited"
      [] OTHER -> "code_other"

(* ----------------------------- StepState -------------------------------- *)
StepStateFields ==
    {"step", "status", "result", "error", "clarification_request",
     "clarification_response", "failure_reason"}

\* StepState(**kw): a pydantic model keeps the declared fields only (a
\* keyword that is no field is dropped), absent fields take their default
StepState(kw) ==
    [f \in StepStateFields |->
        IF f \in DOMAIN kw THEN kw[f]
        ELSE IF f = "status" THEN "pending" ELSE None]

\* dict merge {**base, **kwargs}
Merge(base, kwargs) ==
    [f \in (DOMAIN base) \cup (DOMAIN kwargs) |->
        IF f \in DOMAIN kwargs THEN kwargs[f] ELSE base[f]]

NoKwargs == [f \in {} |-> None]
NoPrevious == << >>

\* StepState.from_result(step, status, result, previous, **kwargs);
\* previous is << >> (None) or <<state>>
FromResult(step, status, result, previous, kwargs) ==
    LET base == [step |-> step, status |-> status, result |-> result]
        inherited ==
            IF previous # << >>
            THEN Merge(base,
                   [clarification_request |-> previous[1].clarification_request,
                    clarification_response |-> previous[1].clarification_response])
            ELSE base
    IN StepState(Merge(inherited, kwargs))

\* dict of StepState keyed by step number
NoStepStates == [k \in {} |-> None]
SetItem(states, step, st) ==
    [k \in (DOMAIN states) \cup {step} |-> IF k = step THEN st ELSE states[k]]
DelItem(states, step) ==
    [k \in (DOMAIN states) \ {step} |-> states[k]]
\* status a reader sees: a step with no StepState is pending
StatusOf(states, step) ==
    IF step \in DOMAIN states THEN states[step].status ELSE "pending"

(* --------------------------- ExecutionState ----------------------------- *)
VARIABLES
    current_step,     \* ExecutionState._current_step
    step_states,      \* ExecutionState._step_states
    entries           \* ExecutionState._entries

\* state.MemoryEntry
MemoryEntry(code, result, success, error, step, is_internal_context) ==
    [code |-> code, result |-> result, success |-> success, error |-> error,
     step |-> step, is_internal_context |-> is_internal_context]

\* a record_result that keeps one entry per step: the entry of a step that
\* was recorded last is replaced
RecordResultEntries_Overwrite(es, step, code, result, success, error) ==
    LET entry == MemoryEntry(code,
                             IF success THEN result ELSE None,
                             success,
                             IF ~success THEN error ELSE None,
                             step, FALSE)
    IN IF es # << >> /\ es[Len(es)].step = step
       THEN [es EXCEPT ![Len(es)] = entry]
       ELSE Append(es, entry)

\* the append of record_result
RecordResultEntries(es, step, code, result, success, error) ==
    Append(es, MemoryEntry(code,
                           IF success THEN result ELSE None,
                           success,
                           IF ~success THEN error ELSE None,
                           step, FALSE))

\* variant: a failure does not replace the state of a completed step
RecordResultStates_KeepCompleted(states, step, result, success, error) ==
    IF success
    THEN SetItem(states, step,
                 FromResult(step, "completed", result, NoPrevious, NoKwargs))
    ELSE IF StatusOf(states, step) = "completed"
         THEN states
         ELSE SetItem(states, step,
                      FromResult(step, "failed", None, NoPrevious,
                                 [failure_reason |-> error]))

\* the step-state update of record_result
RecordResultStates(states, step, result, success, error) ==
    IF success
    THEN SetItem(states, step,
                 FromResult(step, "completed", result, NoPrevious, NoKwargs))
    ELSE SetItem(states, step,
                 FromResult(step, "failed", None, NoPrevious,
                            [failure_reason |-> error]))

\* reset_step: the states after, and the pointer after
ResetStepStates(states, step) ==
    IF step \in DOMAIN states THEN DelItem(states, step) ELSE states
\* variant: a pointer that stands on the step itself is not rewound
ResetStepPointer_Strict(pointer, step) ==
    IF step < pointer THEN step - 1 ELSE pointer

ResetStepPointer(pointer, step) ==
    IF step <= pointer THEN step - 1 ELSE pointer

\* record_context
RecordContextEntries(es, step, message) ==
    Append(es, MemoryEntry("", message, TRUE, None, step, TRUE))

\* export(): a dict with one list of dicts, one per entry, in order
Export(es) ==
    [entries |->
        [i \in 1..Len(es) |->
            [code |-> es[i].code, result |-> es[i].result,
             success |-> es[i].success, error |-> es[i].error,
             step |-> es[i].step,
             is_internal_context |-> es[i].is_internal_context]]]

(* --------------------------- SensemakerAgent ---------------------------- *)
VARIABLES
    sm_current_step,  \* SensemakerAgent._current_step
    sm_step_states,   \* SensemakerAgent._step_states
    memory            \* entries of SensemakerAgent.memory

\* memory.add(code, result, success, error, step): appends one entry
MemoryAdd(mem, code, result, success, error, step) ==
    Append(mem, [code |-> code, result |-> result, success |-> success,
                 error |-> error, step |-> step])

\* _is_suspicious_result on stripped, lower-case result strings (the
\* pattern search of lines 214..217 matches none of the modelled strings)
IsSuspiciousResult(result) ==
    \/ result = ""
    \/ result \in {"nan", "null", "none", "n/a", ""}

\* _confirms_missing_data
ConfirmsMissingData(result) ==
    \/ result = "0"
    \/ result \in {"[]", "{}", "empty", "no data"}

\* _update_step_state(step, result)
UpdateStepState(states, step, result) ==
    IF step \in DOMAIN states /\ states[step].status = "needs_clarification"
    THEN IF IsSuspiciousResult(result) \/ ConfirmsMissingData(result)
         THEN SetItem(states, step,
                FromResult(step, "failed", states[step].result,
                           <<states[step]>>,
                           [clarification_response |-> result,
                            failure_reason |->
                                "Clarification confirmed: " \o result]))
         ELSE SetItem(states, step,
                FromResult(step, "completed", result, <<states[step]>>,
                           [clarification_response |-> result]))
    ELSE IF IsSuspiciousResult(result)
         THEN SetItem(states, step,
                FromResult(step, "needs_clarification", result,
                           NoPrevious, NoKwargs))
         ELSE SetItem(states, step,
                FromResult(step, "completed", result, NoPrevious, NoKwargs))

\* the step the outcome new_info is stored under by process()
RecordingStep(pointer) == pointer

\* process(), lines 122..133: store new_info in memory
ProcessMemory(mem, pointer, info) ==
    IF info = << >> THEN mem
    ELSE MemoryAdd(mem, info[1].code,
                   IF info[1].success THEN info[1].results ELSE None,
                   info[1].success,
                   IF ~info[1].success THEN info[1].results ELSE None,
                   RecordingStep(pointer))

\* process(), lines 131..133: update the step state on success
ProcessStates(states, pointer, info) ==
    IF info # << >> /\ info[1].success
    THEN UpdateStepState(states, RecordingStep(pointer), info[1].results)
    ELSE states

\* process(), lines 169..174: current step tracking
TrackCurrentStep(pointer, response) ==
    IF response.status = "needs_info"
    THEN IF response.current_step # pointer
         THEN response.current_step
         ELSE pointer + 1
    ELSE pointer

\* the responses of the decision collaborator (_call_llm)
CompleteResponse ==
    [status |-> "complete", answer |-> "answer",
     supporting_evidence |-> "evidence"]
NeedsInfoResponse(s) ==
    [status |-> "needs_info", current_step |-> s, request |-> ExecRequest]
NeedsCorrectionResponse(s) ==
    [status |-> "needs_correction", affected_step |-> s,
     proposed_correction |-> ProposedFix]
Responses ==
    {CompleteResponse} \cup {NeedsInfoResponse(s) : s \in Steps}
                       \cup {NeedsCorrectionResponse(s) : s \in Steps}

\* get_answer(): the FinalAnswer of the collaborator
FinalAnswer ==
    [answer |-> "best_effort", supporting_evidence |-> "evidence"]

(* ------------------- sandbox worker and its host side ------------------- *)
VARIABLES
    output,            \* execute_sandboxed: output, the parsed response of
                       \* the worker, << >> while there is none
    execution_result   \* how the last call of execute_sandboxed ended:
                       \* <<the ExecutionResult returned>> or <<the
                       \* exception raised>>, << >> before the first call

\* types.ExecutionResult
ExecutionResult(result, error, truncated) ==
    [result |-> result, error |-> error, truncated |-> truncated]

\* values the executed code leaves in the variable result
SandboxValues == {None, "42.5"}
\* code handed to the worker: none, or a piece of generated code
SandboxCodes == {"", "code_req"}
\* what subprocess.run gives the host: no docker, a timeout, a non-zero
\* exit code, text that is no JSON, JSON text that is no object (a number
\* the snippet printed before it ended the process with exit code 0), an
\* object without the response fields, or the response the worker wrote
ProcOutcomes ==
    {"no_docker", "timeout", "exit_nonzero", "invalid_json",
     "json_not_object", "json_empty_object", "response"}

\* an exception that leaves the function
Raised(exception) == [raised |-> exception]
IsRaised(r) == "raised" \in DOMAIN r

\* serialize_result for results of at most max_chars characters: a number
\* is written as it is, None as null
SerializeResult(value) ==
    IF value = None THEN <<"null", FALSE>> ELSE <<value, FALSE>>

\* variant: a failing execution still reports what the code had assigned
Main_KeepsResult(request_valid, code, datasets_found, raises, value) ==
    IF ~request_valid
    THEN [result |-> None, error |-> "Invalid JSON input", truncated |-> FALSE]
    ELSE IF code = ""
    THEN [result |-> None, error |-> "No code provided", truncated |-> FALSE]
    ELSE IF ~datasets_found
    THEN [result |-> None, error |-> "No datasets found in /data",
          truncated |-> FALSE]
    ELSE IF raises
    THEN [result |-> SerializeResult(value)[1],
          error |-> "Code execution failed", truncated |-> FALSE]
    ELSE [result |-> SerializeResult(value)[1], error |-> None,
          truncated |-> SerializeResult(value)[2]]

\* executor.main: the response object the worker writes to stdout
Main(request_valid, code, datasets_found, raises, value) ==
    IF ~request_valid
    THEN [result |-> None, error |-> "Invalid JSON input", truncated |-> FALSE]
    ELSE IF code = ""
    THEN [result |-> None, error |-> "No code provided", truncated |-> FALSE]
    ELSE IF ~datasets_found
    THEN [result |-> None, error |-> "No datasets found in /data",
          truncated |-> FALSE]
    ELSE IF raises
    THEN [result |-> None, error |-> "Code execution failed",
          truncated |-> FALSE]
    ELSE [result |-> SerializeResult(value)[1], error |-> None,
          truncated |-> SerializeResult(value)[2]]

\* execute_sandboxed lines 41..73: the ExecutionResult for each outcome of
\* subprocess.run; response is the object json.loads gives
ExecuteSandboxedResult(outcome, response) ==
    CASE outcome = "no_docker" ->
            ExecutionResult(None, "Docker is not installed or not in PATH",
                            FALSE)
      [] outcome = "timeout" ->
            ExecutionResult(None, "Sandbox execution timed out", FALSE)
      [] outcome = "exit_nonzero" ->
            ExecutionResult(None, "Sandbox container failed", FALSE)
      [] outcome = "invalid_json" ->
            ExecutionResult(None, "Sandbox returned invalid JSON", FALSE)
      \* line 63: output.get on a value that is no dict
      [] outcome = "json_not_object" -> Raised("AttributeError")
      \* lines 63..73: output.get gives None, None and the default False
      [] outcome = "json_empty_object" -> ExecutionResult(None, None, FALSE)
      [] OTHER ->
            ExecutionResult(response.result, response.error,
                            response.truncated)

InitSandbox ==
    /\ output = << >>
    /\ execution_result = << >>

(* ----------------- one invocation of the sandbox worker ----------------- *)
VARIABLES
    worker             \* executor.main: what it read (stdin, /data), what
                       \* it wrote to stdout, the dataset the snippet ran
                       \* on, and how it ended

\* stems of the CSV files under /data, in the order sorted() gives them
DatasetNames == <<"activity", "garmin", "sleep">>
\* the sets of files /data may hold
DatasetDirs == SUBSET {DatasetNames[i] : i \in 1..Len(DatasetNames)}
\* request.get("primary_source", ""): a name, or "" when the key is missing
PrimarySources == {""} \cup {DatasetNames[i] : i \in 1..Len(DatasetNames)}

\* main lines 60..63: the dataset that becomes df, None when there is none
PrimaryDf(primary_source, datasets) ==
    IF primary_source \in datasets THEN primary_source
    ELSE IF datasets # {}
         THEN DatasetNames[CHOOSE i \in 1..Len(DatasetNames) :
                  /\ DatasetNames[i] \in datasets
                  /\ \A j \in 1..(i - 1) : DatasetNames[j] \notin datasets]
         ELSE None

\* main lines 42..85: the response objects written to stdout; none when
\* load_datasets (line 58, pd.read_csv) raises, which nothing catches
MainWrites(request_valid, code, primary_source, datasets, load_ok, raises, value) ==
    IF request_valid /\ code # "" /\ ~load_ok
    THEN << >>
    ELSE <<Main(request_valid, code,
                PrimaryDf(primary_source, datasets) # None, raises, value)>>

\* main lines 69..78: the dataset the snippet is executed on, None when
\* the snippet is not executed
SnippetDf(request_valid, code, primary_source, datasets, load_ok) ==
    IF request_valid /\ code # "" /\ load_ok
    THEN PrimaryDf(primary_source, datasets)
    ELSE None

WorkerIdle == [ran |-> FALSE]

InitWorker == worker = WorkerIdle

(* ------------- CSVDataSource and InformationSeekingAgent.seek ----------- *)
VARIABLES
    data,              \* CSVDataSource._data: None or the loaded frame
    loads,             \* how often pd.read_csv has loaded the file
    calls,             \* the calls made on the source, oldest first
    exec_result,       \* seek: what _execute_query gave, << >> before
    seek_result        \* seek: what seek gave to its caller, << >> before

MaxCalls == 4

DataFrame == "df"
SourceOps == {"connect", "disconnect", "get_schema", "query"}
QueryTypes == {"exec", "select"}
Call(op, raised) == [op |-> op, raised |-> raised]

\* connect: _data after the call; pd.read_csv runs only when nothing is
\* held, and when it raises nothing is held afterwards
ConnectData(held, load_ok) ==
    IF held = None THEN (IF load_ok THEN DataFrame ELSE None) ELSE held

\* connect: the loads the call adds
\* variant: loads whenever it is called
ConnectLoads_Always(held, load_ok) ==
    IF load_ok THEN 1 ELSE 0

ConnectLoads(held, load_ok) ==
    IF held = None /\ load_ok THEN 1 ELSE 0

\* DataFrame.copy(): a new object with the contents of the frame
\* variant: the frame itself is handed on
Copy_SameObject(frame) == [shared |-> TRUE, contents |-> frame]

Copy(frame) == [shared |-> FALSE, contents |-> frame]

\* CSVDataSource.query lines 153..202: _data after the query. The snippet
\* runs with df bound to a copy of _data; a snippet that changes df in
\* place changes the held frame only if df is that very object
QueryData(held, query, code, mutates) ==
    IF held # None /\ query = "exec" /\ code # ""
    THEN LET df == Copy(held)
         IN  IF mutates /\ df.shared THEN "df changed in place" ELSE held
    ELSE held

\* connect: whether pd.read_csv raised out of the call
ConnectRaises(held, load_ok) == held = None /\ ~load_ok

\* CSVDataSource.query: the dict it returns, or the exception of connect
QueryResult(held, load_ok, query, code, raises, value) ==
    IF ConnectRaises(held, load_ok) THEN Raised("Exception")
    ELSE IF ConnectData(held, load_ok) = None
    THEN [error |-> "Data not loaded"]
    ELSE IF query # "exec"
    THEN [error |-> "Unknown query type"]
    ELSE IF code = "" THEN [error |-> "No code provided"]
    ELSE IF raises THEN [error |-> "Code execution failed"]
    ELSE [result |-> SerializeResult(value)[1],
          truncated |-> SerializeResult(value)[2]]

\* InformationSeekingAgent._execute_query
ExecuteQuery(registered, held, load_ok, query, code, raises, value) ==
    IF ~registered
    THEN ExecutionResult(None, "Data source not found", FALSE)
    ELSE LET r == QueryResult(held, load_ok, query, code, raises, value)
         IN  IF IsRaised(r) THEN ExecutionResult(None, "str(e)", FALSE)
             ELSE r

\* an instance of ExecutionResult, which has the attributes result, error
\* and truncated; a dict has none of them
IsExecutionResult(r) == DOMAIN r = {"result", "error", "truncated"}

\* InfoSeekerResult returned by info_seeker.seek
InfoSeekerResult(code, results, success) ==
    [code |-> code, results |-> results, success |-> success]

\* seek lines 119..172
SeekResult(decide_ok, code, exec) ==
    IF ~decide_ok
    THEN InfoSeekerResult(None, "LLM failed to generate query", FALSE)
    ELSE IF ~IsExecutionResult(exec) THEN Raised("AttributeError")
    ELSE IF exec.error \notin {None, ""}
    THEN InfoSeekerResult(code, exec.error, FALSE)
    ELSE InfoSeekerResult(code,
                          IF exec.result = None THEN "" ELSE exec.result,
                          TRUE)

InitSource ==
    /\ data = None
    /\ loads = 0
    /\ calls = << >>
    /\ exec_result = << >>
    /\ seek_result = << >>

(* ------------------------ Orchestrator.run and Plan --------------------- *)
VARIABLES
    plan,              \* Plan.steps: the PlanSteps, in list order
    run_log_plan,      \* RunLog plan, set once the plan is approved
    run_return,        \* what Orchestrator.run returned, << >> before
    iteration,         \* _sensemaking_loop: the local iteration
    run_frame          \* Orchestrator.run step 3: result, verification and
                       \* the handler under way

MaxIterations == 3
\* final reviews of one run that end in a revise or a replan
MaxReviews == 1

\* Orchestrator.run before step 3
NoFrame ==
    [result |-> << >>, verification |-> << >>, shown |-> << >>,
     caller |-> "run", new_plan |-> << >>, new_info |-> << >>,
     n_seek |-> 0, n_final_review |-> 0,
     final_decision |-> "none", decision |-> "none"]

MaxPlanStep == 4

REJECTED_RESULT == [answer |-> None, status |-> "rejected"]
CANCELLED_RESULT == [answer |-> None, status |-> "cancelled"]

\* of a PlanStep the number and the modified flag
PlanStep(step, modified) == [step |-> step, modified |-> modified]

\* the plans a planner can give with step numbers up to MaxPlanStep: the
\* numbers are unique and ascending, contiguous or not
PlannerPlans ==
    {p \in UNION {[1..n -> {PlanStep(k, FALSE) : k \in 1..MaxPlanStep}] :
                     n \in 0..MaxPlanStep} :
        \A i \in 1..(Len(p) - 1) : p[i].step < p[i + 1].step}

\* the plan of the runs of the loop: steps 1..MaxStep
LoopPlan == [k \in 1..MaxStep |-> PlanStep(k, FALSE)]

\* _modify_plan: the steps whose action the human changed are flagged
ModifyPlan(p, changed) ==
    [i \in 1..Len(p) |->
        IF p[i].step \in changed THEN PlanStep(p[i].step, TRUE) ELSE p[i]]

\* handle_add_new_step line 90: the number of the new step
NewStepNum(p) == Len(p) + 1

\* SensemakerAgent.mark_step_completed: the step states
MarkStepCompleted(states, step, res, error) ==
    IF error \notin {None, ""}
    THEN SetItem(states, step,
            StepState([step |-> step, status |-> "failed", error |-> error,
                       failure_reason |-> error]))
    ELSE SetItem(states, step,
            StepState([step |-> step, status |-> "completed",
                       result |-> res]))

\* SensemakerAgent.mark_step_completed: the pointer
MarkStepPointer(cur, step) == IF step >= cur THEN step ELSE cur

\* Orchestrator.run lines 113..126: where the run is after a plan decision
\* variant: the loop starts on any decision
ApprovePlanPc_AnyDecision(decision) == "process"

ApprovePlanPc(decision) ==
    IF decision = "approve" THEN "process"
    ELSE IF decision = "modify" THEN "plan_review"
    ELSE "finished"

PlanDecisions == {"approve", "modify", "reject", None}
\* modify_plan_step: the sets of steps whose action the human rewrites
ChangedSteps == {{}, {1}}
FinalDecisions == {"accept", "reject", None}

\* approve_correction lines 136..159: what it returns for what the human
\* did at the two prompts; None is a prompt the human aborted
ApproveCorrection(decision, text) ==
    IF decision = None THEN <<"skip", None>>
    ELSE IF decision = "modify" /\ text = None THEN <<"skip", None>>
    ELSE IF decision = "modify" THEN <<"modify", text>>
    ELSE <<decision, None>>

\* the plan is approved and the loop runs on it
InitRun ==
    /\ plan = LoopPlan
    /\ run_log_plan = <<LoopPlan>>
    /\ run_return = << >>
    /\ iteration = 0
    /\ run_frame = NoFrame

(* ---------- serialized results and their truncation to max_chars -------- *)
VARIABLES
    result_str,        \* the serialized result before the size control
    worker_serialized, \* << >> or <<what executor.serialize_result returns>>
    query_serialized   \* << >> or <<what CSVDataSource.query returns>>

\* max_chars = 5000 of serialize_result and of CSVDataSource.query
max_chars == 5000
\* how far the lengths of the strings tried lie from max_chars
MaxOver == 3

\* a string is the sequence of its runs of equal characters, so that
\* strings of some thousand characters stay small values; a run has at
\* least one character and neighbouring runs differ in their character
Run(char, count) == [char |-> char, count |-> count]

\* len(result_str)
RECURSIVE StrLen(_)
StrLen(str) ==
    IF str = << >> THEN 0 ELSE str[1].count + StrLen(Tail(str))

\* result_str[:n]
RECURSIVE Take(_, _)
Take(str, n) ==
    IF str = << >> \/ n <= 0 THEN << >>
    ELSE IF str[1].count <= n
         THEN <<str[1]>> \o Take(Tail(str), n - str[1].count)
         ELSE <<Run(str[1].char, n)>>

\* the strings tried: empty, one character, and one or two runs whose
\* lengths lie around max_chars
SerializedStrings ==
    {<< >>, <<Run("a", 1)>>}
      \cup {<<Run("a", n)>> : n \in (max_chars - MaxOver)..(max_chars + MaxOver)}
      \cup {<<Run("a", n), Run("b", m)>> :
               n \in (max_chars - MaxOver)..(max_chars + MaxOver),
               m \in 1..MaxOver}

\* variant: a string of exactly max_chars characters counts as too long
Truncate_AtLimit(str) ==
    IF StrLen(str) >= max_chars
    THEN [result |-> Take(str, max_chars), truncated |-> TRUE]
    ELSE [result |-> str, truncated |-> FALSE]

\* serialize_result lines 34..39: the size control of the worker
Truncate(str) ==
    IF StrLen(str) > max_chars
    THEN [result |-> Take(str, max_chars), truncated |-> TRUE]
    ELSE [result |-> str, truncated |-> FALSE]

\* CSVDataSource.query lines 190..199: the size control in process
QueryTruncate(str) ==
    LET truncated == StrLen(str) > max_chars
    IN  [result |-> IF truncated THEN Take(str, max_chars) ELSE str,
         truncated |-> truncated]

InitSerialize ==
    /\ result_str = << >>
    /\ worker_serialized = << >>
    /\ query_serialized = << >>

(* --------------------------- ExecutionEngine ---------------------------- *)
VARIABLES
    config,            \* Config: max_step_attempts, max_code_retries
    pc,                \* position in execute_plan
    new_info,          \* execute_plan: new_info, << >> (None) or <<result>>
    last_step,         \* execute_plan: last_step
    step_retries,      \* execute_plan: step_retries
    sensemaker_result, \* execute_plan: sensemaker_result
    request,           \* request handed to _seek_with_retries
    error_history,     \* _seek_with_retries: error_history
    request_with_context, \* _seek_with_retries: request_with_context of the
                       \* last call of info_seeker.seek, << >> before it
    seek_new_info,     \* _seek_with_retries: new_info, << >> (None) or
                       \* <<the result of the last call of info_seeker.seek>>
    result,            \* value returned by execute_plan, << >> while running
    exit,              \* return statement taken: "none", "complete", "forced"
    n_decisions,       \* history: calls of sensemaker.process
    same_step_run,     \* history: length of the current run of consecutive
                       \* Execute decisions that name one and the same step
    n_get_answer,      \* history: calls of sensemaker.get_answer
    n_dispatch,        \* history: calls of _seek_with_retries
    n_seek,            \* history: calls of info_seeker.seek made by the
                       \* last call of _seek_with_retries
    before_review      \* history: both stores when the last Review was raised

vars ==
    <<current_step, step_states, entries,
      sm_current_step, sm_step_states, memory,
      config, pc, new_info, last_step, step_retries, sensemaker_result,
      request, error_history, request_with_context, seek_new_info,
      result, exit,
      n_decisions, same_step_run, n_get_answer, n_dispatch, n_seek,
      before_review, output, execution_result,
      result_str, worker_serialized, query_serialized, worker,
      data, loads, calls, exec_result, seek_result,
      plan, run_log_plan, run_return, iteration, run_frame>>

Unset == [status |-> "unset"]
NoSnapshot == [taken |-> FALSE]
Snapshot ==
    [taken |-> TRUE, sm_step_states |-> sm_step_states, memory |-> memory,
     sm_current_step |-> sm_current_step,
     step_states |-> step_states, entries |-> entries,
     current_step |-> current_step]

\* variant: the budget test lets two more repeats through
RetriesExhausted_Late(retries, max_step_attempts) ==
    retries > max_step_attempts + 1

\* execute_plan line 65: the attempt budget of the step is used up
RetriesExhausted(retries, max_step_attempts) ==
    retries >= max_step_attempts

\* execute_plan lines 56..64: last_step and step_retries after the decision
TrackLastStep(response, last) ==
    IF response.status = "needs_info" /\ response.current_step # last
    THEN response.current_step ELSE last
\* variant: the counter is carried over to a new step
TrackStepRetries_NoReset(response, last, retries) ==
    IF response.status = "needs_info" THEN retries + 1 ELSE retries

TrackStepRetries(response, last, retries) ==
    IF response.status = "needs_info"
    THEN IF response.current_step # last THEN 0 ELSE retries + 1
    ELSE retries
\* variant: the budget test also runs when the step number changed
ForcedExit_AnyStep(response, last, retries, max_step_attempts) ==
    /\ response.status = "needs_info"
    /\ retries + 1 >= max_step_attempts

\* execute_plan lines 62..65: the turn takes the forced exit
ForcedExit(response, last, retries, max_step_attempts) ==
    /\ response.status = "needs_info"
    /\ response.current_step = last
    /\ RetriesExhausted(retries + 1, max_step_attempts)

\* _handle_correction lines 234..237: the request to execute
CorrectedRequest(dec, modified_request, correction) ==
    IF dec = "approve" THEN correction.proposed_correction
    ELSE IF modified_request # None /\ modified_request # ""
         THEN modified_request
         ELSE correction.proposed_correction

\* approve_correction: (decision, modified_request); an abort reads as skip
HumanAnswers ==
    {<<"approve", None>>, <<"skip", None>>}
        \cup {<<"modify", t>> : t \in EditedTexts}

InitState ==
    /\ current_step = 0
    /\ step_states = NoStepStates
    /\ entries = << >>

InitSensemaker ==
    /\ sm_current_step = 0
    /\ sm_step_states = NoStepStates
    /\ memory = << >>

InitEngine ==
    /\ pc = "process"
    /\ new_info = << >>
    /\ last_step = NoStep
    /\ step_retries = 0
    /\ sensemaker_result = Unset
    /\ request = None
    /\ error_history = << >>
    /\ request_with_context = << >>
    /\ seek_new_info = << >>
    /\ result = << >>
    /\ exit = "none"
    /\ n_decisions = 0
    /\ same_step_run = 0
    /\ n_get_answer = 0
    /\ n_dispatch = 0
    /\ n_seek = 0
    /\ before_review = NoSnapshot

Init ==
    /\ InitState
    /\ InitSensemaker
    /\ config \in [max_step_attempts : 0..MaxStepAttempts,
                   max_code_retries : {MaxCodeRetries}]
    /\ InitEngine
    /\ InitSandbox
    /\ InitSerialize
    /\ InitWorker
    /\ InitSource
    /\ InitRun

\* history: the run of consecutive Execute decisions for one step, counted
\* on the responses alone
SameStepRun(previous, response, run) ==
    IF response.status # "needs_info" THEN 0
    ELSE IF previous.status = "needs_info"
            /\ previous.current_step = response.current_step
         THEN run + 1
         ELSE 1

\* execute_plan line 53: sensemaker.process(query, plan, new_info)
Process(response) ==
    /\ pc = "process"
    /\ n_decisions < MaxTurns
    /\ memory' = ProcessMemory(memory, sm_current_step, new_info)
    /\ sm_step_states' = ProcessStates(sm_step_states, sm_current_step, new_info)
    /\ sm_current_step' = TrackCurrentStep(sm_current_step, response)
    /\ sensemaker_result' = response
    /\ n_decisions' = n_decisions + 1
    /\ same_step_run' = SameStepRun(sensemaker_result, response, same_step_run)
    /\ before_review' = NoSnapshot
    /\ n_seek' = 0
    /\ request_with_context' = << >>
    /\ seek_new_info' = << >>
    /\ pc' = "track"
    /\ UNCHANGED <<current_step, step_states, entries, config, new_info,
                   last_step, step_retries, request, error_history, result,
                   exit, n_get_answer, n_dispatch, output, execution_result,
                   result_str, worker_serialized, query_serialized, worker,
                   data, loads, calls, exec_result, seek_result, plan,
                   run_log_plan, run_return, iteration, run_frame>>

\* execute_plan lines 62..72: same step again, budget used up
TrackForced ==
    /\ pc = "track"
    /\ ForcedExit(sensemaker_result, last_step, step_retries,
                  config.max_step_attempts)
    /\ step_retries' = TrackStepRetries(sensemaker_result, last_step, step_retries)
    /\ n_get_answer' = n_get_answer + 1
    /\ result' = <<[answer |-> FinalAnswer.answer,
                    supporting_evidence |-> FinalAnswer.supporting_evidence]>>
    /\ exit' = "forced"
    /\ pc' = "returned"
    /\ UNCHANGED <<current_step, step_states, entries, sm_current_step,
                   sm_step_states, memory, config, new_info, last_step,
                   sensemaker_result, request, error_history,
                   request_with_context, seek_new_info, n_decisions,
                   same_step_run, n_dispatch, n_seek, before_review, output,
                   execution_result, result_str, worker_serialized,
                   query_serialized, worker, data, loads, calls, exec_result,
                   seek_result, plan, run_log_plan, run_return, iteration,
                   run_frame>>

\* execute_plan lines 78..90: the collaborator is done
TrackComplete ==
    /\ pc = "track"
    /\ sensemaker_result.status = "complete"
    /\ result' = <<[answer |-> sensemaker_result.answer,
                    supporting_evidence |->
                        sensemaker_result.supporting_evidence]>>
    /\ exit' = "complete"
    /\ pc' = "returned"
    /\ UNCHANGED <<current_step, step_states, entries, sm_current_step,
                   sm_step_states, memory, config, new_info, last_step,
                   step_retries, sensemaker_result, request, error_history,
                   request_with_context, seek_new_info, n_decisions,
                   same_step_run, n_get_answer, n_dispatch, n_seek,
                   before_review, output, execution_result, result_str,
                   worker_serialized, query_serialized, worker, data, loads,
                   calls, exec_result, seek_result, plan, run_log_plan,
                   run_return, iteration, run_frame>>

\* execute_plan lines 93..96 and _handle_correction up to the prompt
TrackCorrection ==
    /\ pc = "track"
    /\ n_decisions < MaxTurns
    /\ sensemaker_result.status = "needs_correction"
    /\ before_review' = Snapshot
    /\ pc' = "review"
    /\ UNCHANGED <<current_step, step_states, entries, sm_current_step,
                   sm_step_states, memory, config, new_info, last_step,
                   step_retries, sensemaker_result, request, error_history,
                   request_with_context, seek_new_info, result, exit,
                   n_decisions, same_step_run, n_get_answer, n_dispatch,
                   n_seek, output, execution_result, result_str,
                   worker_serialized, query_serialized, worker, data, loads,
                   calls, exec_result, seek_result, plan, run_log_plan,
                   run_return, iteration, run_frame>>

\* execute_plan lines 56..64 and 105..118: an Execute within the budget
TrackExecute ==
    /\ pc = "track"
    /\ n_decisions < MaxTurns
    /\ sensemaker_result.status = "needs_info"
    /\ ~ForcedExit(sensemaker_result, last_step, step_retries,
                   config.max_step_attempts)
    /\ last_step' = TrackLastStep(sensemaker_result, last_step)
    /\ step_retries' = TrackStepRetries(sensemaker_result, last_step, step_retries)
    /\ request' = sensemaker_result.request
    /\ error_history' = << >>
    /\ n_dispatch' = n_dispatch + 1
    /\ n_seek' = 0
    /\ request_with_context' = << >>
    /\ seek_new_info' = << >>
    /\ pc' = "seek"
    /\ UNCHANGED <<current_step, step_states, entries, sm_current_step,
                   sm_step_states, memory, config, new_info,
                   sensemaker_result, result, exit, n_decisions,
                   same_step_run, n_get_answer, before_review, output,
                   execution_result, result_str, worker_serialized,
                   query_serialized, worker, data, loads, calls, exec_result,
                   seek_result, plan, run_log_plan, run_return, iteration,
                   run_frame>>

\* _handle_correction lines 213..231 and execute_plan lines 100..103:
\* the human skips the correction
\* variant: a skip gives a step without a StepState a completed one
SkipStates_Creates(states, step) ==
    SetItem(states, step,
            StepState([step |-> step, status |-> "completed",
                       user_accepted |-> TRUE]))

SkipStates(states, step) ==
    IF step \in DOMAIN states
    THEN SetItem(states, step,
                 StepState([step |-> step, status |-> "completed",
                            result |-> states[step].result,
                            user_accepted |-> TRUE]))
    ELSE states
SkipPointer(states, pointer, step) ==
    IF step \in DOMAIN states /\ step >= pointer THEN step ELSE pointer
\* a skip that leaves new_info as it was
SkipNewInfo_Stale(info) == info

\* execute_plan line 102: what the next process() call receives after a skip
SkipNewInfo(info) == << >>

SkipCorrection ==
    /\ pc = "review"
    /\ step_states' = SkipStates(step_states, sensemaker_result.affected_step)
    /\ current_step' = SkipPointer(step_states, current_step,
                                   sensemaker_result.affected_step)
    /\ new_info' = SkipNewInfo(new_info)
    /\ pc' = "process"
    /\ UNCHANGED <<entries, sm_current_step, sm_step_states, memory, config,
                   last_step, step_retries, sensemaker_result, request,
                   error_history, request_with_context, seek_new_info,
                   result, exit, n_decisions, same_step_run, n_get_answer,
                   n_dispatch, n_seek, before_review, output,
                   execution_result, result_str, worker_serialized,
                   query_serialized, worker, data, loads, calls, exec_result,
                   seek_result, plan, run_log_plan, run_return, iteration,
                   run_frame>>

\* _handle_correction lines 233..248: the human approves or modifies; the
\* step is reset and the corrected request goes to _seek_with_retries
ApplyCorrection(answer) ==
    /\ pc = "review"
    /\ answer[1] \in {"approve", "modify"}
    /\ request' = CorrectedRequest(answer[1], answer[2], sensemaker_result)
    \* self.sensemaker.reset_step(correction.affected_step)
    /\ sm_step_states' = ResetStepStates(sm_step_states,
                                         sensemaker_result.affected_step)
    /\ sm_current_step' = ResetStepPointer(sm_current_step,
                                           sensemaker_result.affected_step)
    \* self.state.current_step = correction.affected_step
    /\ current_step' = sensemaker_result.affected_step
    /\ error_history' = << >>
    /\ n_dispatch' = n_dispatch + 1
    /\ n_seek' = 0
    /\ request_with_context' = << >>
    /\ seek_new_info' = << >>
    /\ pc' = "seek"
    /\ UNCHANGED <<step_states, entries, memory, config, new_info, last_step,
                   step_retries, sensemaker_result, result, exit,
                   n_decisions, same_step_run, n_get_answer, before_review,
                   output, execution_result, result_str, worker_serialized,
                   query_serialized, worker, data, loads, calls, exec_result,
                   seek_result, plan, run_log_plan, run_return, iteration,
                   run_frame>>

\* _seek_with_retries lines 145..149: the request of an attempt, a text of
\* lines; a line is its fixed part (label) and the text put into it
Line(label, text) == [label |-> label, text |-> text]

\* variant: only the latest failure is folded into the request
RequestWithContext_LastOnly(info_request, history) ==
    IF history # << >>
    THEN <<Line("", info_request), Line("", ""),
           Line("", "Previous errors:"),
           Line("- Attempt " \o ToString(Len(history)) \o ": ",
                history[Len(history)])>>
    ELSE <<Line("", info_request)>>

RequestWithContext(info_request, history) ==
    IF history # << >>
    THEN <<Line("", info_request), Line("", ""),
           Line("", "Previous errors:")>>
         \o [i \in 1..Len(history) |->
                Line("- Attempt " \o ToString(i) \o ": ", history[i])]
    ELSE <<Line("", info_request)>>

\* variant: the loop counts one attempt fewer than it made
LastAttempt_OneMore(history, max_code_retries) ==
    Len(history) >= max_code_retries

\* _seek_with_retries line 143: the attempt under way is the last one of
\* range(max_code_retries); history holds one text per earlier attempt
LastAttempt(history, max_code_retries) ==
    Len(history) + 1 >= max_code_retries

\* _seek_with_retries lines 143..155: an attempt succeeds and is returned
SeekSuccess(r) ==
    /\ pc = "seek"
    /\ Len(error_history) < config.max_code_retries
    /\ request_with_context' = RequestWithContext(request, error_history)
    /\ seek_new_info' = <<InfoSeekerResult(CodeOf(request), r, TRUE)>>
    /\ new_info' = seek_new_info'
    /\ request' = None
    /\ error_history' = << >>
    /\ n_seek' = n_seek + 1
    /\ pc' = "process"
    /\ UNCHANGED <<current_step, step_states, entries, sm_current_step,
                   sm_step_states, memory, config, last_step, step_retries,
                   sensemaker_result, result, exit, n_decisions,
                   same_step_run, n_get_answer, n_dispatch, before_review,
                   output, execution_result, result_str, worker_serialized,
                   query_serialized, worker, data, loads, calls, exec_result,
                   seek_result, plan, run_log_plan, run_return, iteration,
                   run_frame>>

\* _seek_with_retries lines 143..165: an attempt fails; the failure text
\* joins error_history, and the last failing result is returned once the
\* budget is used up
SeekFailure(e) ==
    /\ pc = "seek"
    /\ Len(error_history) < config.max_code_retries
    /\ n_seek' = n_seek + 1
    /\ request_with_context' = RequestWithContext(request, error_history)
    /\ seek_new_info' = <<InfoSeekerResult(CodeOf(request), e, FALSE)>>
    /\ IF LastAttempt(error_history, config.max_code_retries)
       THEN /\ new_info' = seek_new_info'
            /\ request' = None
            /\ error_history' = << >>
            /\ pc' = "process"
       ELSE /\ error_history' = Append(error_history, e)
            /\ UNCHANGED <<new_info, request, pc>>
    /\ UNCHANGED <<current_step, step_states, entries, sm_current_step,
                   sm_step_states, memory, config, last_step, step_retries,
                   sensemaker_result, result, exit, n_decisions,
                   same_step_run, n_get_answer, n_dispatch, before_review,
                   output, execution_result, result_str, worker_serialized,
                   query_serialized, worker, data, loads, calls, exec_result,
                   seek_result, plan, run_log_plan, run_return, iteration,
                   run_frame>>

Next ==
    \/ \E response \in Responses : Process(response)
    \/ TrackForced
    \/ TrackComplete
    \/ TrackCorrection
    \/ TrackExecute
    \/ SkipCorrection
    \/ \E answer \in HumanAnswers : ApplyCorrection(answer)
    \/ \E r \in Results : SeekSuccess(r)
    \/ \E e \in Errors : SeekFailure(e)

Spec == Init /\ [][Next]_vars


(* ------------- the loop started again for an approved replan ----------- *)
\* InteractionHandler.handle_replan lines 181..186, after the loop has
\* returned and the human approved the new plan: memory.clear(),
\* sensemaker.reset(), then execution.execute_plan(query, new_plan), whose
\* lines 45..47 set the locals. Orchestrator.run lines 100..101 and
\* Orchestrator._handle_replan lines 602..603 make the same two calls.
HandleReplan ==
    /\ pc = "returned"
    /\ n_decisions < MaxTurns
    \* self.memory.clear()
    /\ memory' = << >>
    \* self.sensemaker.reset()
    /\ sm_current_step' = 0
    /\ sm_step_states' = NoStepStates
    \* self.execution.execute_plan(query, new_plan)
    /\ pc' = "process"
    /\ new_info' = << >>
    /\ last_step' = NoStep
    /\ step_retries' = 0
    /\ sensemaker_result' = Unset
    /\ request' = None
    /\ error_history' = << >>
    /\ request_with_context' = << >>
    /\ seek_new_info' = << >>
    /\ result' = << >>
    /\ exit' = "none"
    /\ same_step_run' = 0
    /\ n_get_answer' = 0
    /\ n_dispatch' = 0
    /\ n_seek' = 0
    /\ before_review' = NoSnapshot
    /\ UNCHANGED <<current_step, step_states, entries, config, n_decisions,
                   output, execution_result, result_str,
                   worker_serialized, query_serialized, worker, data,
                   loads, calls, exec_result, seek_result, plan,
                   run_log_plan, run_return, iteration, run_frame>>

NextRun ==
    \/ Next
    \/ HandleReplan

SpecRun == Init /\ [][NextRun]_vars


(* ------------- _seek_with_retries alone, for every request -------------- *)
\* info_request arguments: the request of an Execute decision, a proposed
\* correction, a correction the human edited
SeekRequests == {ExecRequest, ProposedFix, "edited"}
\* failure texts of info_seeker.seek (InfoSeekerResult.results)
SeekErrors == {"err1", "err2"}

\* execute_plan line 118 reached by the first decision of a run, an Execute
\* decision for step s with request q
InitSeek ==
    \E s \in Steps, q \in SeekRequests, m \in 1..MaxCodeRetries :
        /\ InitState
        /\ InitSandbox
        /\ InitSerialize
        /\ InitWorker
        /\ InitSource
        /\ InitRun
        /\ config = [max_step_attempts |-> MaxStepAttempts,
                     max_code_retries |-> m]
        /\ sm_current_step = s
        /\ sm_step_states = NoStepStates
        /\ memory = << >>
        /\ pc = "seek"
        /\ new_info = << >>
        /\ last_step = s
        /\ step_retries = 0
        /\ sensemaker_result = [NeedsInfoResponse(s) EXCEPT !.request = q]
        /\ request = q
        /\ error_history = << >>
        /\ request_with_context = << >>
        /\ seek_new_info = << >>
        /\ result = << >>
        /\ exit = "none"
        /\ n_decisions = 1
        /\ same_step_run = 1
        /\ n_get_answer = 0
        /\ n_dispatch = 1
        /\ n_seek = 0
        /\ before_review = NoSnapshot

NextSeek ==
    \/ \E r \in Results : SeekSuccess(r)
    \/ \E e \in SeekErrors : SeekFailure(e)

SpecSeek == InitSeek /\ [][NextSeek]_vars

(* --------------- _seek_with_retries for every retry budget -------------- *)

\* the same call with a retry budget of any configurable size, 0 included
InitSeekBudget ==
    \E s \in Steps, q \in SeekRequests :
        /\ InitState
        /\ InitSandbox
        /\ InitSerialize
        /\ InitWorker
        /\ InitSource
        /\ InitRun
        /\ config \in [max_step_attempts : {MaxStepAttempts},
                       max_code_retries : 0..MaxCodeRetries]
        /\ sm_current_step = s
        /\ sm_step_states = NoStepStates
        /\ memory = << >>
        /\ pc = "seek"
        /\ new_info = << >>
        /\ last_step = s
        /\ step_retries = 0
        /\ sensemaker_result = [NeedsInfoResponse(s) EXCEPT !.request = q]
        /\ request = q
        /\ error_history = << >>
        /\ request_with_context = << >>
        /\ seek_new_info = << >>
        /\ result = << >>
        /\ exit = "none"
        /\ n_decisions = 1
        /\ same_step_run = 1
        /\ n_get_answer = 0
        /\ n_dispatch = 1
        /\ n_seek = 0
        /\ before_review = NoSnapshot

\* _seek_with_retries lines 143, 162..165: range(max_code_retries) is
\* empty, no attempt is made, new_info is still None and the assertion
\* fails
SeekNoAttempt ==
    /\ pc = "seek"
    /\ config.max_code_retries <= 0
    /\ exit' = "AssertionError"
    /\ pc' = "raised"
    /\ UNCHANGED <<current_step, step_states, entries, sm_current_step,
                   sm_step_states, memory, config, new_info, last_step,
                   step_retries, sensemaker_result, request, error_history,
                   request_with_context, seek_new_info, result, n_decisions,
                   same_step_run, n_get_answer, n_dispatch, n_seek,
                   before_review, output, execution_result, result_str,
                   worker_serialized, query_serialized, worker, data, loads,
                   calls, exec_result, seek_result, plan, run_log_plan,
                   run_return, iteration, run_frame>>

NextSeekBudget ==
    \/ NextSeek
    \/ SeekNoAttempt

SpecSeekBudget == InitSeekBudget /\ [][NextSeekBudget]_vars


(* ---------------- ExecutionState API, called in any order ---------------- *)
\* arguments the callers pass
ArgResults == {"42.5"}
ArgErrors == {"err1"}
ArgStates(step) ==
    {FromResult(step, "needs_clarification", "nan", NoPrevious, NoKwargs),
     StepState([step |-> step, status |-> "completed", result |-> "nan",
                user_accepted |-> TRUE])}

\* engine variables while no loop is running
IdleEngine ==
    /\ config = [max_step_attempts |-> 0, max_code_retries |-> 1]
    /\ pc = "idle"
    /\ new_info = << >>
    /\ last_step = NoStep
    /\ step_retries = 0
    /\ sensemaker_result = Unset
    /\ request = None
    /\ error_history = << >>
    /\ request_with_context = << >>
    /\ seek_new_info = << >>
    /\ result = << >>
    /\ exit = "none"
    /\ n_decisions = 0
    /\ same_step_run = 0
    /\ n_get_answer = 0
    /\ n_dispatch = 0
    /\ n_seek = 0
    /\ before_review = NoSnapshot

InitHarness ==
    /\ InitState
    /\ InitSensemaker
    /\ IdleEngine
    /\ InitSandbox
    /\ InitSerialize
    /\ InitWorker
    /\ InitSource
    /\ InitRun

\* ExecutionState.record_result
RecordResult(step, code, res, success, error) ==
    /\ Len(entries) < MaxEntries
    /\ entries' = RecordResultEntries(entries, step, code, res, success, error)
    /\ step_states' = RecordResultStates(step_states, step, res, success, error)
    /\ UNCHANGED <<current_step, sm_current_step, sm_step_states, memory,
                   config, pc, new_info, last_step, step_retries,
                   sensemaker_result, request, error_history,
                   request_with_context, seek_new_info, result, exit,
                   n_decisions, same_step_run, n_get_answer, n_dispatch,
                   n_seek, before_review, output, execution_result,
                   result_str, worker_serialized, query_serialized, worker,
                   data, loads, calls, exec_result, seek_result, plan,
                   run_log_plan, run_return, iteration, run_frame>>

\* ExecutionState.record_context
RecordContext(step, message) ==
    /\ Len(entries) < MaxEntries
    /\ entries' = RecordContextEntries(entries, step, message)
    /\ UNCHANGED <<current_step, step_states, sm_current_step,
                   sm_step_states, memory, config, pc, new_info, last_step,
                   step_retries, sensemaker_result, request, error_history,
                   request_with_context, seek_new_info, result, exit,
                   n_decisions, same_step_run, n_get_answer, n_dispatch,
                   n_seek, before_review, output, execution_result,
                   result_str, worker_serialized, query_serialized, worker,
                   data, loads, calls, exec_result, seek_result, plan,
                   run_log_plan, run_return, iteration, run_frame>>

\* ExecutionState.set_step_state
SetStepState(step, st) ==
    /\ step_states' = SetItem(step_states, step, st)
    /\ UNCHANGED <<current_step, entries, sm_current_step, sm_step_states,
                   memory, config, pc, new_info, last_step, step_retries,
                   sensemaker_result, request, error_history,
                   request_with_context, seek_new_info, result, exit,
                   n_decisions, same_step_run, n_get_answer, n_dispatch,
                   n_seek, before_review, output, execution_result,
                   result_str, worker_serialized, query_serialized, worker,
                   data, loads, calls, exec_result, seek_result, plan,
                   run_log_plan, run_return, iteration, run_frame>>

\* ExecutionState.reset_step
ResetStep(step) ==
    /\ step_states' = ResetStepStates(step_states, step)
    /\ current_step' = ResetStepPointer(current_step, step)
    /\ UNCHANGED <<entries, sm_current_step, sm_step_states, memory, config,
                   pc, new_info, last_step, step_retries, sensemaker_result,
                   request, error_history, request_with_context,
                   seek_new_info, result, exit, n_decisions, same_step_run,
                   n_get_answer, n_dispatch, n_seek, before_review, output,
                   execution_result, result_str, worker_serialized,
                   query_serialized, worker, data, loads, calls, exec_result,
                   seek_result, plan, run_log_plan, run_return, iteration,
                   run_frame>>

\* ExecutionState.current_step setter
SetCurrentStep(value) ==
    /\ current_step' = value
    /\ UNCHANGED <<step_states, entries, sm_current_step, sm_step_states,
                   memory, config, pc, new_info, last_step, step_retries,
                   sensemaker_result, request, error_history,
                   request_with_context, seek_new_info, result, exit,
                   n_decisions, same_step_run, n_get_answer, n_dispatch,
                   n_seek, before_review, output, execution_result,
                   result_str, worker_serialized, query_serialized, worker,
                   data, loads, calls, exec_result, seek_result, plan,
                   run_log_plan, run_return, iteration, run_frame>>

\* ExecutionState.reset
Reset ==
    /\ current_step' = 0
    /\ step_states' = NoStepStates
    /\ entries' = << >>
    /\ UNCHANGED <<sm_current_step, sm_step_states, memory, config, pc,
                   new_info, last_step, step_retries, sensemaker_result,
                   request, error_history, request_with_context,
                   seek_new_info, result, exit, n_decisions, same_step_run,
                   n_get_answer, n_dispatch, n_seek, before_review, output,
                   execution_result, result_str, worker_serialized,
                   query_serialized, worker, data, loads, calls, exec_result,
                   seek_result, plan, run_log_plan, run_return, iteration,
                   run_frame>>

NextState ==
    \/ \E step \in Steps, res \in ArgResults, success \in BOOLEAN,
          error \in ArgErrors :
            RecordResult(step, "code_req", res, success, error)
    \/ \E step \in Steps : RecordContext(step, "note")
    \/ \E step \in Steps : \E st \in ArgStates(step) : SetStepState(step, st)
    \/ \E step \in Steps : ResetStep(step)
    \/ \E value \in Steps : SetCurrentStep(value)
    \/ Reset

SpecState == InitHarness /\ [][NextState]_vars

(* ------- the sandbox and record_result, for every outcome and input ----- *)

\* execute_sandboxed(code, primary_source, datasets_dir) with the worker
\* executor.main behind subprocess.run
ExecuteSandboxed(outcome, request_valid, code, datasets_found, raises, value) ==
    /\ output' =
          IF outcome = "response"
          THEN <<Main(request_valid, code, datasets_found, raises, value)>>
          ELSE << >>
    /\ execution_result' =
          <<ExecuteSandboxedResult(outcome,
                Main(request_valid, code, datasets_found, raises, value))>>
    /\ UNCHANGED <<current_step, step_states, entries, sm_current_step,
                   sm_step_states, memory, config, pc, new_info, last_step,
                   step_retries, sensemaker_result, request, error_history,
                   request_with_context, seek_new_info, result, exit,
                   n_decisions, same_step_run, n_get_answer, n_dispatch,
                   n_seek, before_review, result_str, worker_serialized,
                   query_serialized, worker, data, loads, calls, exec_result,
                   seek_result, plan, run_log_plan, run_return, iteration,
                   run_frame>>

NextSandbox ==
    \/ \E outcome \in ProcOutcomes, request_valid \in BOOLEAN,
          code \in SandboxCodes, datasets_found \in BOOLEAN,
          raises \in BOOLEAN, value \in SandboxValues :
            ExecuteSandboxed(outcome, request_valid, code, datasets_found,
                             raises, value)
    \/ \E step \in Steps, res \in ArgResults, success \in BOOLEAN,
          error \in ArgErrors :
            RecordResult(step, "code_req", res, success, error)

SpecSandbox == InitHarness /\ [][NextSandbox]_vars

(* ------------- the size control, for every serialized result ------------ *)

\* a result of any of the tried lengths is about to be serialized
InitResultStr ==
    /\ InitState
    /\ InitSensemaker
    /\ IdleEngine
    /\ InitSandbox
    /\ InitWorker
    /\ InitSource
    /\ InitRun
    /\ result_str \in SerializedStrings
    /\ worker_serialized = << >>
    /\ query_serialized = << >>

\* executor.serialize_result on result_str
WorkerSerialize ==
    /\ worker_serialized = << >>
    /\ worker_serialized' = <<Truncate(result_str)>>
    /\ UNCHANGED <<current_step, step_states, entries, sm_current_step,
                   sm_step_states, memory, config, pc, new_info, last_step,
                   step_retries, sensemaker_result, request, error_history,
                   request_with_context, seek_new_info, result, exit,
                   n_decisions, same_step_run, n_get_answer, n_dispatch,
                   n_seek, before_review, output, execution_result,
                   result_str, query_serialized, worker, data, loads, calls,
                   exec_result, seek_result, plan, run_log_plan, run_return,
                   iteration, run_frame>>

\* CSVDataSource.query, lines 189..199, on result_str
QuerySerialize ==
    /\ query_serialized = << >>
    /\ query_serialized' = <<QueryTruncate(result_str)>>
    /\ UNCHANGED <<current_step, step_states, entries, sm_current_step,
                   sm_step_states, memory, config, pc, new_info, last_step,
                   step_retries, sensemaker_result, request, error_history,
                   request_with_context, seek_new_info, result, exit,
                   n_decisions, same_step_run, n_get_answer, n_dispatch,
                   n_seek, before_review, output, execution_result,
                   result_str, worker_serialized, worker, data, loads, calls,
                   exec_result, seek_result, plan, run_log_plan, run_return,
                   iteration, run_frame>>

NextSerialize ==
    \/ WorkerSerialize
    \/ QuerySerialize

SpecSerialize == InitResultStr /\ [][NextSerialize]_vars

(* ------------- the worker alone, for every request and /data ------------ *)

\* python executor.py with a request on stdin and the files in /data
RunWorker(request_valid, code, primary_source, datasets, load_ok, raises, value) ==
    /\ worker = WorkerIdle
    \* load_datasets can fail only on a file it reads
    /\ ~load_ok => datasets # {}
    /\ worker' =
          [ran |-> TRUE,
           request_valid |-> request_valid,
           code |-> code,
           primary_source |-> primary_source,
           datasets |-> datasets,
           stdout |-> MainWrites(request_valid, code, primary_source,
                                 datasets, load_ok, raises, value),
           df |-> SnippetDf(request_valid, code, primary_source, datasets,
                            load_ok)]
    /\ UNCHANGED <<current_step, step_states, entries, sm_current_step,
                   sm_step_states, memory, config, pc, new_info, last_step,
                   step_retries, sensemaker_result, request, error_history,
                   request_with_context, seek_new_info, result, exit,
                   n_decisions, same_step_run, n_get_answer, n_dispatch,
                   n_seek, before_review, output, execution_result,
                   result_str, worker_serialized, query_serialized, data,
                   loads, calls, exec_result, seek_result, plan,
                   run_log_plan, run_return, iteration, run_frame>>

NextWorker ==
    \E request_valid \in BOOLEAN, code \in SandboxCodes,
       primary_source \in PrimarySources, datasets \in DatasetDirs,
       load_ok \in BOOLEAN, raises \in BOOLEAN, value \in SandboxValues :
        RunWorker(request_valid, code, primary_source, datasets, load_ok,
                  raises, value)

SpecWorker == InitHarness /\ [][NextWorker]_vars

(* ---------------- a tabular data source and seek on it ------------------ *)

\* CSVDataSource.connect
Connect(load_ok) ==
    /\ Len(calls) < MaxCalls
    /\ data' = ConnectData(data, load_ok)
    /\ loads' = loads + ConnectLoads(data, load_ok)
    /\ calls' = Append(calls, Call("connect", ConnectRaises(data, load_ok)))
    /\ UNCHANGED <<current_step, step_states, entries, sm_current_step,
                   sm_step_states, memory, config, pc, new_info, last_step,
                   step_retries, sensemaker_result, request, error_history,
                   request_with_context, seek_new_info, result, exit,
                   n_decisions, same_step_run, n_get_answer, n_dispatch,
                   n_seek, before_review, output, execution_result,
                   result_str, worker_serialized, query_serialized, worker,
                   exec_result, seek_result, plan, run_log_plan, run_return,
                   iteration, run_frame>>

\* CSVDataSource.disconnect
Disconnect ==
    /\ Len(calls) < MaxCalls
    /\ data' = None
    /\ calls' = Append(calls, Call("disconnect", FALSE))
    /\ UNCHANGED <<current_step, step_states, entries, sm_current_step,
                   sm_step_states, memory, config, pc, new_info, last_step,
                   step_retries, sensemaker_result, request, error_history,
                   request_with_context, seek_new_info, result, exit,
                   n_decisions, same_step_run, n_get_answer, n_dispatch,
                   n_seek, before_review, output, execution_result,
                   result_str, worker_serialized, query_serialized, worker,
                   loads, exec_result, seek_result, plan, run_log_plan,
                   run_return, iteration, run_frame>>

\* CSVDataSource.get_schema, which connects first
GetSchema(load_ok) ==
    /\ Len(calls) < MaxCalls
    /\ data' = ConnectData(data, load_ok)
    /\ loads' = loads + ConnectLoads(data, load_ok)
    /\ calls' = Append(calls, Call("get_schema", ConnectRaises(data, load_ok)))
    /\ UNCHANGED <<current_step, step_states, entries, sm_current_step,
                   sm_step_states, memory, config, pc, new_info, last_step,
                   step_retries, sensemaker_result, request, error_history,
                   request_with_context, seek_new_info, result, exit,
                   n_decisions, same_step_run, n_get_answer, n_dispatch,
                   n_seek, before_review, output, execution_result,
                   result_str, worker_serialized, query_serialized, worker,
                   exec_result, seek_result, plan, run_log_plan, run_return,
                   iteration, run_frame>>

\* InformationSeekingAgent.seek; it queries the source when the decision
\* names a registered one
Seek(decide_ok, registered, load_ok, query, code, mutates, raises, value) ==
    /\ Len(calls) < MaxCalls
    /\ seek_result = << >>
    /\ LET queried == decide_ok /\ registered
           exec == ExecuteQuery(registered, data, load_ok, query, code,
                                raises, value)
       IN  /\ data' = IF queried
                      THEN QueryData(ConnectData(data, load_ok), query, code,
                                     mutates)
                      ELSE data
           /\ loads' = loads + (IF queried THEN ConnectLoads(data, load_ok)
                                           ELSE 0)
           /\ calls' = IF queried
                       THEN Append(calls,
                                   Call("query", ConnectRaises(data, load_ok)))
                       ELSE calls
           /\ exec_result' = IF decide_ok THEN <<exec>> ELSE << >>
           /\ seek_result' = <<SeekResult(decide_ok, code, exec)>>
    /\ UNCHANGED <<current_step, step_states, entries, sm_current_step,
                   sm_step_states, memory, config, pc, new_info, last_step,
                   step_retries, sensemaker_result, request, error_history,
                   request_with_context, seek_new_info, result, exit,
                   n_decisions, same_step_run, n_get_answer, n_dispatch,
                   n_seek, before_review, output, execution_result,
                   result_str, worker_serialized, query_serialized, worker,
                   plan, run_log_plan, run_return, iteration, run_frame>>

NextSource ==
    \/ \E load_ok \in BOOLEAN : Connect(load_ok)
    \/ Disconnect
    \/ \E load_ok \in BOOLEAN : GetSchema(load_ok)
    \/ \E decide_ok \in BOOLEAN, registered \in BOOLEAN, load_ok \in BOOLEAN,
          query \in QueryTypes, code \in SandboxCodes, mutates \in BOOLEAN,
          raises \in BOOLEAN, value \in SandboxValues :
            Seek(decide_ok, registered, load_ok, query, code, mutates,
                 raises, value)

SpecSource == InitHarness /\ [][NextSource]_vars

(* --------------- a run from plan review to final review ----------------- *)

\* Orchestrator.run lines 107..110: the planner's plan awaits the human
InitPlanReview ==
    /\ InitState
    /\ InitSensemaker
    /\ config = [max_step_attempts |-> 1, max_code_retries |-> MaxCodeRetries]
    /\ pc = "plan_review"
    /\ new_info = << >>
    /\ last_step = NoStep
    /\ step_retries = 0
    /\ sensemaker_result = Unset
    /\ request = None
    /\ error_history = << >>
    /\ request_with_context = << >>
    /\ seek_new_info = << >>
    /\ result = << >>
    /\ exit = "none"
    /\ n_decisions = 0
    /\ same_step_run = 0
    /\ n_get_answer = 0
    /\ n_dispatch = 0
    /\ n_seek = 0
    /\ before_review = NoSnapshot
    /\ InitSandbox
    /\ InitSerialize
    /\ InitWorker
    /\ InitSource
    /\ plan = LoopPlan
    /\ run_log_plan = << >>
    /\ run_return = << >>
    /\ iteration = 0
    /\ run_frame = NoFrame

\* Orchestrator.run lines 113..133: one answer of the human to the plan
ApprovePlan(decision, changed) ==
    /\ pc = "plan_review"
    /\ plan' = IF decision = "modify" THEN ModifyPlan(plan, changed) ELSE plan
    /\ run_log_plan' = IF decision = "approve" THEN <<plan>> ELSE run_log_plan
    /\ run_return' = IF decision = "reject" THEN <<REJECTED_RESULT>>
                     ELSE IF decision = None THEN <<CANCELLED_RESULT>>
                     ELSE run_return
    /\ pc' = ApprovePlanPc(decision)
    /\ UNCHANGED <<current_step, step_states, entries, sm_current_step,
                   sm_step_states, memory, config, new_info, last_step,
                   step_retries, sensemaker_result, request, error_history,
                   request_with_context, seek_new_info, result, exit,
                   n_decisions, same_step_run, n_get_answer, n_dispatch,
                   n_seek, before_review, output, execution_result,
                   result_str, worker_serialized, query_serialized, worker,
                   data, loads, calls, exec_result, seek_result, iteration,
                   run_frame>>

\* Orchestrator.run lines 147..173: the human accepts, rejects or aborts
\* at the final review (a replan is HandleReplan)
FinalReview(decision) ==
    /\ pc = "returned"
    /\ run_return' =
          IF decision = "accept"
          THEN <<[answer |-> result[1].answer, status |-> "final"]>>
          ELSE IF decision = "reject" THEN <<REJECTED_RESULT>>
          ELSE <<CANCELLED_RESULT>>
    /\ pc' = "finished"
    /\ UNCHANGED <<current_step, step_states, entries, sm_current_step,
                   sm_step_states, memory, config, new_info, last_step,
                   step_retries, sensemaker_result, request, error_history,
                   request_with_context, seek_new_info, result, exit,
                   n_decisions, same_step_run, n_get_answer, n_dispatch,
                   n_seek, before_review, output, execution_result,
                   result_str, worker_serialized, query_serialized, worker,
                   data, loads, calls, exec_result, seek_result, plan,
                   run_log_plan, iteration, run_frame>>

\* _handle_correction when the human aborts the correction prompt:
\* approve_correction reports a skip
AbortCorrection ==
    /\ ApproveCorrection(None, None)[1] = "skip"
    /\ SkipCorrection

NextSession ==
    \/ \E decision \in PlanDecisions, changed \in ChangedSteps :
          ApprovePlan(decision, changed)
    \/ Next
    \/ HandleReplan
    \/ \E decision \in FinalDecisions : FinalReview(decision)

SpecSession == InitPlanReview /\ [][NextSession]_vars

(* -------------------- a step added at the final review ------------------ *)

\* any plan of the planner, its loop finished
InitPlan ==
    /\ InitState
    /\ InitSensemaker
    /\ IdleEngine
    /\ InitSandbox
    /\ InitSerialize
    /\ InitWorker
    /\ InitSource
    /\ plan \in PlannerPlans
    /\ run_log_plan = <<plan>>
    /\ run_return = << >>
    /\ iteration = 0
    /\ run_frame = NoFrame

\* Orchestrator._modify_plan on the plan
ModifyPlanSteps(changed) ==
    /\ pc = "idle"
    /\ plan' = ModifyPlan(plan, changed)
    /\ UNCHANGED <<current_step, step_states, entries, sm_current_step,
                   sm_step_states, memory, config, pc, new_info, last_step,
                   step_retries, sensemaker_result, request, error_history,
                   request_with_context, seek_new_info, result, exit,
                   n_decisions, same_step_run, n_get_answer, n_dispatch,
                   n_seek, before_review, output, execution_result,
                   result_str, worker_serialized, query_serialized, worker,
                   data, loads, calls, exec_result, seek_result,
                   run_log_plan, run_return, iteration, run_frame>>

\* InteractionHandler.handle_add_new_step (Orchestrator._handle_add_new_step
\* is the same): new_action is what the human typed, (success, results,
\* code) what seek gave for it
HandleAddNewStep(new_action, code, results, success) ==
    /\ pc = "idle"
    /\ new_action # ""
    /\ Len(plan) <= MaxPlanStep
    /\ plan' = Append(plan, PlanStep(NewStepNum(plan), TRUE))
    /\ memory' = MemoryAdd(memory, code,
                           IF success THEN results ELSE None, success,
                           IF ~success THEN results ELSE None,
                           NewStepNum(plan))
    /\ sm_step_states' =
          MarkStepCompleted(sm_step_states, NewStepNum(plan),
                            IF success THEN results ELSE None,
                            IF ~success THEN results ELSE None)
    /\ sm_current_step' = MarkStepPointer(sm_current_step, NewStepNum(plan))
    \* self.execution.execute_plan(query, plan)
    /\ pc' = "process"
    /\ UNCHANGED <<current_step, step_states, entries, config, new_info,
                   last_step, step_retries, sensemaker_result, request,
                   error_history, request_with_context, seek_new_info,
                   result, exit, n_decisions, same_step_run, n_get_answer,
                   n_dispatch, n_seek, before_review, output,
                   execution_result, result_str, worker_serialized,
                   query_serialized, worker, data, loads, calls, exec_result,
                   seek_result, run_log_plan, run_return, iteration,
                   run_frame>>

NextPlan ==
    \/ \E changed \in SUBSET (1..MaxPlanStep) : ModifyPlanSteps(changed)
    \/ \E new_action \in {"", "new action"}, r \in Results :
          HandleAddNewStep(new_action, CodeOf(ExecRequest), r, TRUE)
    \/ \E new_action \in {"", "new action"}, e \in Errors :
          HandleAddNewStep(new_action, CodeOf(ExecRequest), e, FALSE)

SpecPlan == InitPlan /\ [][NextPlan]_vars

(* ---------------- the loop from its second turn onwards ----------------- *)

\* execute_plan after its first turn with the largest attempt budget: the
\* collaborator asked for step 1, the retrieval succeeded and the next
\* decision is due; the decision calls are counted from here
InitRetry ==
    /\ InitState
    /\ sm_current_step = TrackCurrentStep(0, NeedsInfoResponse(1))
    /\ sm_step_states = NoStepStates
    /\ memory = << >>
    /\ config = [max_step_attempts |-> MaxStepAttempts,
                 max_code_retries |-> MaxCodeRetries]
    /\ pc = "process"
    /\ sensemaker_result = NeedsInfoResponse(1)
    /\ last_step = TrackLastStep(NeedsInfoResponse(1), NoStep)
    /\ step_retries = TrackStepRetries(NeedsInfoResponse(1), NoStep, 0)
    /\ request = None
    /\ error_history = << >>
    /\ request_with_context = RequestWithContext(ExecRequest, << >>)
    /\ seek_new_info = <<InfoSeekerResult(CodeOf(ExecRequest), "42.5", TRUE)>>
    /\ new_info = seek_new_info
    /\ result = << >>
    /\ exit = "none"
    /\ n_decisions = 0
    /\ same_step_run = 1
    /\ n_get_answer = 0
    /\ n_dispatch = 1
    /\ n_seek = 1
    /\ before_review = NoSnapshot
    /\ InitSandbox
    /\ InitSerialize
    /\ InitWorker
    /\ InitSource
    /\ InitRun

SpecRetry == InitRetry /\ [][Next]_vars

(* ------------------- Orchestrator._sensemaking_loop --------------------- *)

\* _sensemaking_loop line 189: the loop goes round once more
\* variant: the bound is tested one iteration late
LoopContinues_OneMore(it, max_iterations) == it <= max_iterations

LoopContinues(it, max_iterations) == it < max_iterations

\* _sensemaking_loop lines 184..188 for every max_iterations up to the bound
InitIter ==
    /\ InitState
    /\ InitSensemaker
    /\ config \in [max_iterations : 0..MaxIterations,
                   max_step_attempts : {MaxStepAttempts},
                   max_code_retries : {MaxCodeRetries}]
    /\ InitEngine
    /\ InitSandbox
    /\ InitSerialize
    /\ InitWorker
    /\ InitSource
    /\ InitRun

\* _sensemaking_loop lines 189..233: one pass of the loop from the bound
\* test through the decision call to the branch taken on the response
IterProcess(response) ==
    /\ pc = "process"
    /\ LoopContinues(iteration, config.max_iterations)
    /\ iteration' = iteration + 1
    /\ memory' = ProcessMemory(memory, sm_current_step, new_info)
    /\ sm_step_states' = ProcessStates(sm_step_states, sm_current_step, new_info)
    /\ sm_current_step' = TrackCurrentStep(sm_current_step, response)
    /\ sensemaker_result' = response
    /\ n_decisions' = n_decisions + 1
    /\ same_step_run' = SameStepRun(sensemaker_result, response, same_step_run)
    /\ request_with_context' = << >>
    /\ seek_new_info' = << >>
    /\ n_seek' = 0
    /\ error_history' = << >>
    /\ IF response.status = "complete"
       THEN /\ result' = <<[answer |-> response.answer,
                            supporting_evidence |->
                                response.supporting_evidence]>>
            /\ exit' = "complete"
            /\ pc' = "returned"
            /\ UNCHANGED <<request, n_dispatch>>
       ELSE IF response.status = "needs_correction"
       THEN /\ pc' = "review"
            /\ UNCHANGED <<result, exit, request, n_dispatch>>
       ELSE /\ request' = response.request
            /\ n_dispatch' = n_dispatch + 1
            /\ pc' = "seek"
            /\ UNCHANGED <<result, exit>>
    /\ UNCHANGED <<current_step, step_states, entries, config, new_info,
                   last_step, step_retries, n_get_answer, before_review,
                   output, execution_result, result_str, worker_serialized,
                   query_serialized, worker, data, loads, calls, exec_result,
                   seek_result, plan, run_log_plan, run_return, run_frame>>

\* Orchestrator._handle_correction lines 331..380: the human's answer to
\* the Review, up to the call of _seek_with_retries
IterHandleCorrection(answer) ==
    /\ pc = "review"
    /\ LET step == sensemaker_result.affected_step
       IN  IF answer[1] = "skip"
           THEN /\ sm_step_states' =
                      IF step \in DOMAIN sm_step_states
                      THEN SetItem(sm_step_states, step,
                             StepState([step |-> step, status |-> "completed",
                                        result |-> sm_step_states[step].result,
                                        clarification_response |->
                                            "User acknowledged"]))
                      ELSE sm_step_states
                /\ sm_current_step' =
                      SkipPointer(sm_step_states, sm_current_step, step)
                /\ new_info' = SkipNewInfo(new_info)
                /\ pc' = "process"
                /\ UNCHANGED <<request, n_dispatch>>
           ELSE /\ request' = CorrectedRequest(answer[1], answer[2],
                                               sensemaker_result)
                /\ sm_step_states' = ResetStepStates(sm_step_states, step)
                /\ sm_current_step' = ResetStepPointer(sm_current_step, step)
                /\ n_dispatch' = n_dispatch + 1
                /\ pc' = "seek"
                /\ UNCHANGED new_info
    /\ UNCHANGED <<current_step, step_states, entries, memory, config,
                   last_step, step_retries, sensemaker_result, error_history,
                   request_with_context, seek_new_info, result, exit,
                   n_decisions, same_step_run, n_get_answer, n_seek,
                   before_review, output, execution_result, result_str,
                   worker_serialized, query_serialized, worker, data, loads,
                   calls, exec_result, seek_result, plan, run_log_plan,
                   run_return, iteration, run_frame>>

\* _sensemaking_loop lines 260..267: the bound is reached
IterExhausted ==
    /\ pc = "process"
    /\ ~LoopContinues(iteration, config.max_iterations)
    /\ n_get_answer' = n_get_answer + 1
    /\ result' = <<[answer |-> FinalAnswer.answer,
                    supporting_evidence |-> FinalAnswer.supporting_evidence]>>
    /\ exit' = "max_iterations"
    /\ pc' = "returned"
    /\ UNCHANGED <<current_step, step_states, entries, sm_current_step,
                   sm_step_states, memory, config, new_info, last_step,
                   step_retries, sensemaker_result, request, error_history,
                   request_with_context, seek_new_info, n_decisions,
                   same_step_run, n_dispatch, n_seek, before_review, output,
                   execution_result, result_str, worker_serialized,
                   query_serialized, worker, data, loads, calls, exec_result,
                   seek_result, plan, run_log_plan, run_return, iteration,
                   run_frame>>

NextIter ==
    \/ \E response \in Responses : IterProcess(response)
    \/ \E answer \in HumanAnswers : IterHandleCorrection(answer)
    \/ \E r \in Results : SeekSuccess(r)
    \/ \E e \in Errors : SeekFailure(e)
    \/ IterExhausted

SpecIter == InitIter /\ [][NextIter]_vars

(* ---------------- Orchestrator.run: the final review loop --------------- *)

\* VerifierAgent.verify: the verification of a result in its context
VerifierVerify(res, p, step_results, mem) ==
    [result |-> res, plan |-> p, step_results |-> step_results,
     memory |-> mem]

\* Orchestrator.run lines 137..144: the verification the final review shows
Verified(frame, p, step_results, mem) ==
    IF frame.verification = << >>
    THEN <<VerifierVerify(frame.result[1], p, step_results, mem)>>
    ELSE frame.verification

\* Orchestrator.run lines 160 and 170: the verification after the result
\* was replaced
\* variant: the verification of the replaced result is kept
ReplacedVerification_Kept(verification) == verification

ReplacedVerification(verification) == << >>

\* Orchestrator._finalize
Finalize(res, verification, p, step_results, mem) ==
    [answer |-> res.answer, supporting_evidence |-> res.supporting_evidence,
     verification |-> verification, plan |-> p,
     step_results |-> step_results, memory |-> mem]

\* _sensemaking_loop line 186, execute_plan line 45: the retrieval result
\* the loop starts with when _handle_revision calls it
\* variant: the outcome of the revised request is handed to the loop
LoopNewInfo_Passed(seeked) == seeked

LoopNewInfo(seeked) == << >>

\* _handle_replan lines 586..603: the record history after a decision on
\* the new plan
\* variant: the history is cleared before the new plan is approved
ReplanMemory_ClearedFirst(mem, decision) == << >>

ReplanMemory(mem, decision) == IF decision = "approve" THEN << >> ELSE mem

\* the plans the planner gives for a replan
ReplanPlans == {<<PlanStep(1, FALSE)>>}
\* select_step_to_revise: an abort, a new step, or "step" for the number
\* of a step of the plan
RevisionSelections == {None, "add_new", "step"}
ReviseTexts == {None, "", "edited"}

\* Orchestrator.run lines 128..133: step 2 starts
InitFinal ==
    /\ InitState
    /\ InitSensemaker
    /\ config = [max_iterations |-> 2,
                 max_step_attempts |-> MaxStepAttempts,
                 max_code_retries |-> 1]
    /\ InitEngine
    /\ InitSandbox
    /\ InitSerialize
    /\ InitWorker
    /\ InitSource
    /\ InitRun

\* Orchestrator.run lines 133..136, 158..160 and 164..170: the loop has
\* returned to the statement that called it
LoopReturns ==
    /\ pc = "returned"
    /\ run_frame' =
          [run_frame EXCEPT
              !.result = result,
              !.verification = ReplacedVerification(@),
              !.caller = "run",
              !.new_plan = << >>,
              !.new_info = << >>]
    /\ plan' = IF run_frame.caller = "replan"
               THEN run_frame.new_plan[1] ELSE plan
    /\ run_log_plan' = IF run_frame.caller = "replan"
                       THEN Append(run_log_plan, run_frame.new_plan[1])
                       ELSE run_log_plan
    /\ pc' = "final_review"
    /\ UNCHANGED <<current_step, step_states, entries, sm_current_step,
                   sm_step_states, memory, config, new_info, last_step,
                   step_retries, sensemaker_result, request, error_history,
                   request_with_context, seek_new_info, result, exit,
                   n_decisions, same_step_run, n_get_answer, n_dispatch,
                   n_seek, before_review, output, execution_result,
                   result_str, worker_serialized, query_serialized, worker,
                   data, loads, calls, exec_result, seek_result, run_return,
                   iteration>>

\* Orchestrator.run lines 137..156 and 171..173: the verification is
\* computed if there is none, shown, and the human ends the run
FinalDecide(decision) ==
    /\ pc = "final_review"
    /\ LET v == Verified(run_frame, plan, sm_step_states, memory)
       IN  /\ run_frame' = [run_frame EXCEPT !.verification = v,
                                             !.shown = v,
                                             !.final_decision = decision]
           /\ run_return' =
                 IF decision = "accept"
                 THEN <<Finalize(run_frame.result[1], v[1], plan,
                                 sm_step_states, memory)>>
                 ELSE IF decision = "reject" THEN <<REJECTED_RESULT>>
                 ELSE <<CANCELLED_RESULT>>
    /\ pc' = "finished"
    /\ UNCHANGED <<current_step, step_states, entries, sm_current_step,
                   sm_step_states, memory, config, new_info, last_step,
                   step_retries, sensemaker_result, request, error_history,
                   request_with_context, seek_new_info, result, exit,
                   n_decisions, same_step_run, n_get_answer, n_dispatch,
                   n_seek, before_review, output, execution_result,
                   result_str, worker_serialized, query_serialized, worker,
                   data, loads, calls, exec_result, seek_result, plan,
                   run_log_plan, iteration>>

\* Orchestrator.run lines 137..170 when the handler returns None:
\* _handle_revision lines 473..488, _handle_add_new_step lines 507..509,
\* _handle_replan lines 569..571
ReviewCancelled(decision, selection, text) ==
    /\ pc = "final_review"
    /\ run_frame.n_final_review < MaxReviews
    /\ \/ decision = "revise" /\ selection = None
       \/ decision = "revise" /\ selection = "add_new"
                              /\ text \in {None, ""}
       \/ decision = "revise" /\ selection \notin {None, "add_new"}
                              /\ text = None
       \/ decision = "replan" /\ text = None
    /\ LET v == Verified(run_frame, plan, sm_step_states, memory)
       IN  run_frame' = [run_frame EXCEPT
                            !.verification = v,
                            !.shown = v,
                            !.final_decision = decision,
                            !.n_final_review = @ + 1]
    /\ UNCHANGED <<current_step, step_states, entries, sm_current_step,
                   sm_step_states, memory, config, pc, new_info, last_step,
                   step_retries, sensemaker_result, request, error_history,
                   request_with_context, seek_new_info, result, exit,
                   n_decisions, same_step_run, n_get_answer, n_dispatch,
                   n_seek, before_review, output, execution_result,
                   result_str, worker_serialized, query_serialized, worker,
                   data, loads, calls, exec_result, seek_result, plan,
                   run_log_plan, run_return, iteration>>

\* _handle_revision lines 481..503: the human revises an existing step;
\* (results, success) is what seek gives for the revised request
ReviseStep(selection, revised_request, results, success) ==
    /\ pc = "final_review"
    /\ run_frame.n_final_review < MaxReviews
    /\ selection \in {plan[i].step : i \in 1..Len(plan)}
    /\ revised_request # None
    /\ LET v == Verified(run_frame, plan, sm_step_states, memory)
           seeked == <<InfoSeekerResult(CodeOf(revised_request), results,
                                        success)>>
       IN  /\ run_frame' = [run_frame EXCEPT
                                !.verification = v,
                                !.shown = v,
                                !.final_decision = "revise",
                                !.n_final_review = @ + 1,
                                !.caller = "revise",
                                !.new_info = seeked,
                                !.n_seek = @ + 1]
           \* self._sensemaking_loop(query, plan), lines 186..188
           /\ new_info' = LoopNewInfo(seeked)
    /\ iteration' = 0
    /\ n_decisions' = 0
    /\ n_get_answer' = 0
    /\ n_dispatch' = 0
    /\ n_seek' = 0
    /\ same_step_run' = 0
    /\ sensemaker_result' = Unset
    /\ request' = None
    /\ error_history' = << >>
    /\ request_with_context' = << >>
    /\ seek_new_info' = << >>
    /\ result' = << >>
    /\ exit' = "none"
    /\ pc' = "process"
    /\ UNCHANGED <<current_step, step_states, entries, sm_current_step,
                   sm_step_states, memory, config, last_step, step_retries,
                   before_review, output, execution_result, result_str,
                   worker_serialized, query_serialized, worker, data, loads,
                   calls, exec_result, seek_result, plan, run_log_plan,
                   run_return>>

\* _handle_add_new_step lines 505..550: the human adds a step
ReviseAddNew(new_action, results, success) ==
    /\ pc = "final_review"
    /\ run_frame.n_final_review < MaxReviews
    /\ new_action \notin {None, ""}
    /\ LET v == Verified(run_frame, plan, sm_step_states, memory)
           seeked == <<InfoSeekerResult(CodeOf(new_action), results,
                                        success)>>
       IN  run_frame' = [run_frame EXCEPT
                            !.verification = v,
                            !.shown = v,
                            !.final_decision = "revise",
                            !.n_final_review = @ + 1,
                            !.caller = "add_new",
                            !.new_info = seeked,
                            !.n_seek = @ + 1]
    /\ plan' = Append(plan, PlanStep(NewStepNum(plan), TRUE))
    /\ memory' = MemoryAdd(memory, CodeOf(new_action),
                           IF success THEN results ELSE None, success,
                           IF ~success THEN results ELSE None,
                           NewStepNum(plan))
    /\ sm_step_states' =
          MarkStepCompleted(sm_step_states, NewStepNum(plan),
                            IF success THEN results ELSE None,
                            IF ~success THEN results ELSE None)
    /\ sm_current_step' = MarkStepPointer(sm_current_step, NewStepNum(plan))
    \* self._sensemaking_loop(query, plan), lines 186..188
    /\ new_info' = << >>
    /\ iteration' = 0
    /\ n_decisions' = 0
    /\ n_get_answer' = 0
    /\ n_dispatch' = 0
    /\ n_seek' = 0
    /\ same_step_run' = 0
    /\ sensemaker_result' = Unset
    /\ request' = None
    /\ error_history' = << >>
    /\ request_with_context' = << >>
    /\ seek_new_info' = << >>
    /\ result' = << >>
    /\ exit' = "none"
    /\ pc' = "process"
    /\ UNCHANGED <<current_step, step_states, entries, config, last_step,
                   step_retries, before_review, output, execution_result,
                   result_str, worker_serialized, query_serialized, worker,
                   data, loads, calls, exec_result, seek_result,
                   run_log_plan, run_return>>

\* _handle_replan lines 569..583: the human gives a suggestion (an empty
\* one too) and the planner gives a new plan
ReplanPrompt(suggested_fix, p) ==
    /\ pc = "final_review"
    /\ run_frame.n_final_review < MaxReviews
    /\ suggested_fix # None
    /\ LET v == Verified(run_frame, plan, sm_step_states, memory)
       IN  run_frame' = [run_frame EXCEPT
                            !.verification = v,
                            !.shown = v,
                            !.final_decision = "replan",
                            !.n_final_review = @ + 1,
                            !.caller = "replan",
                            !.new_plan = <<p>>]
    /\ pc' = "replan_review"
    /\ UNCHANGED <<current_step, step_states, entries, sm_current_step,
                   sm_step_states, memory, config, new_info, last_step,
                   step_retries, sensemaker_result, request, error_history,
                   request_with_context, seek_new_info, result, exit,
                   n_decisions, same_step_run, n_get_answer, n_dispatch,
                   n_seek, before_review, output, execution_result,
                   result_str, worker_serialized, query_serialized, worker,
                   data, loads, calls, exec_result, seek_result, plan,
                   run_log_plan, run_return, iteration>>

\* _handle_replan lines 586..599: the new plan is modified, rejected or
\* the prompt aborted
ReplanNotApproved(decision, changed) ==
    /\ pc = "replan_review"
    /\ decision # "approve"
    /\ run_frame' =
          IF decision = "modify"
          THEN [run_frame EXCEPT
                   !.new_plan = <<ModifyPlan(@[1], changed)>>,
                   !.decision = decision]
          ELSE [run_frame EXCEPT !.caller = "run", !.new_plan = << >>,
                                 !.decision = decision]
    /\ memory' = ReplanMemory(memory, decision)
    /\ pc' = IF decision = "modify" THEN "replan_review" ELSE "final_review"
    /\ UNCHANGED <<current_step, step_states, entries, sm_current_step,
                   sm_step_states, config, new_info, last_step, step_retries,
                   sensemaker_result, request, error_history,
                   request_with_context, seek_new_info, result, exit,
                   n_decisions, same_step_run, n_get_answer, n_dispatch,
                   n_seek, before_review, output, execution_result,
                   result_str, worker_serialized, query_serialized, worker,
                   data, loads, calls, exec_result, seek_result, plan,
                   run_log_plan, run_return, iteration>>

\* _handle_replan lines 586..607: the new plan is approved, the history
\* and the sensemaker are cleared and the loop runs on the new plan
ReplanApproved(decision) ==
    /\ pc = "replan_review"
    /\ decision = "approve"
    /\ run_frame' = [run_frame EXCEPT !.decision = decision]
    /\ memory' = ReplanMemory(memory, decision)
    /\ sm_current_step' = 0
    /\ sm_step_states' = NoStepStates
    \* self._sensemaking_loop(query, new_plan), lines 186..188
    /\ new_info' = << >>
    /\ iteration' = 0
    /\ n_decisions' = 0
    /\ n_get_answer' = 0
    /\ n_dispatch' = 0
    /\ n_seek' = 0
    /\ same_step_run' = 0
    /\ sensemaker_result' = Unset
    /\ request' = None
    /\ error_history' = << >>
    /\ request_with_context' = << >>
    /\ seek_new_info' = << >>
    /\ result' = << >>
    /\ exit' = "none"
    /\ pc' = "process"
    /\ UNCHANGED <<current_step, step_states, entries, config, last_step,
                   step_retries, before_review, output, execution_result,
                   result_str, worker_serialized, query_serialized, worker,
                   data, loads, calls, exec_result, seek_result, plan,
                   run_log_plan, run_return>>

\* the loop of step 2 with the decisions about the first step
NextFinalLoop ==
    \/ \E response \in {CompleteResponse, NeedsInfoResponse(1),
                         NeedsCorrectionResponse(1)} : IterProcess(response)
    \/ \E answer \in {a \in HumanAnswers : a[2] # ""} :
          IterHandleCorrection(answer)
    \/ SeekSuccess("42.5")
    \/ SeekFailure("err1")
    \/ IterExhausted

NextFinal ==
    \/ NextFinalLoop
    \/ LoopReturns
    \/ \E decision \in FinalDecisions : FinalDecide(decision)
    \/ \E decision \in {"revise", "replan"},
          selection \in RevisionSelections, text \in ReviseTexts :
          ReviewCancelled(decision, selection, text)
    \/ \E selection \in 1..MaxPlanStep, text \in ReviseTexts :
          \/ ReviseStep(selection, text, "42.5", TRUE)
          \/ ReviseStep(selection, text, "err1", FALSE)
    \/ \E text \in ReviseTexts :
          \/ ReviseAddNew(text, "42.5", TRUE)
          \/ ReviseAddNew(text, "err1", FALSE)
    \/ \E text \in ReviseTexts, p \in ReplanPlans : ReplanPrompt(text, p)
    \/ \E decision \in PlanDecisions, changed \in ChangedSteps :
          \/ ReplanNotApproved(decision, changed)
          \/ ReplanApproved(decision)

SpecFinal == InitFinal /\ [][NextFinal]_vars

(* ------------------------------ properties ------------------------------ *)

\* C1: when the decision collaborator keeps answering Execute for one and
\* the same step on consecutive decisions, the loop leaves through the
\* forced-answer path: a run of such decisions never grows beyond
\* max(1, max_step_attempts) + 1, at that length the loop has returned the
\* best-effort answer, and get_answer is called at most (there: exactly) once.
C1_ForcedExitOnStall ==
    LET budget == IF config.max_step_attempts > 1
                  THEN config.max_step_attempts ELSE 1
    IN /\ n_get_answer <= 1
       /\ same_step_run <= budget + 1
       /\ (pc # "track" /\ same_step_run = budget + 1)
            => /\ pc = "returned"
               /\ exit = "forced"
               /\ n_get_answer = 1

C1_Witness ==
    /\ config.max_step_attempts = 2
    /\ same_step_run = 3
    /\ n_dispatch = 2
    /\ pc = "returned"
    /\ exit = "forced"
    /\ n_get_answer = 1

C3_StepStateTransitions ==
    [][\A s \in 0..(MaxStep + 1) :
         LET Changed(before, after) ==
                 \/ (s \in DOMAIN before) # (s \in DOMAIN after)
                 \/ s \in DOMAIN before /\ before[s] # after[s]
             Allowed(before, after) ==
                 \/ <<StatusOf(before, s), StatusOf(after, s)>> \in
                        {<<"pending", "completed">>,
                         <<"pending", "needs_clarification">>,
                         <<"needs_clarification", "completed">>,
                         <<"needs_clarification", "failed">>}
                 \/ /\ StatusOf(after, s) = "pending"
                    /\ pc = "review"
                    /\ pc' = "seek"
             requested ==
                 IF sensemaker_result.status = "needs_info"
                 THEN sensemaker_result.current_step
                 ELSE IF sensemaker_result.status = "needs_correction"
                      THEN sensemaker_result.affected_step
                      ELSE s
         IN /\ Changed(step_states, step_states')
                => Allowed(step_states, step_states')
            /\ Changed(sm_step_states, sm_step_states')
                => /\ Allowed(sm_step_states, sm_step_states')
                   /\ pc = "process" => s = requested
      ]_vars

\* C4: whatever record_result, record_context, set_step_state and
\* reset_step calls are made (reset() apart), the list export() returned
\* before a call is a prefix of the list it returns after it.
C4_ExportIsAppendOnly ==
    [][~Reset =>
         LET before == Export(entries).entries
             after == Export(entries').entries
         IN /\ Len(before) <= Len(after)
            /\ SubSeq(after, 1, Len(before)) = before
      ]_vars

C4_Witness ==
    /\ Len(entries) = MaxEntries
    /\ \E i \in 1..Len(entries) :
          /\ ~entries[i].is_internal_context
          /\ entries[i].step \notin DOMAIN step_states
    /\ \E i \in 1..Len(entries) : entries[i].is_internal_context
    /\ \E s \in DOMAIN step_states :
          step_states[s].status = "needs_clarification"

\* C5: a Review for step 2 (which has a StepState), answered with approve
\* or modify: once the
\* corrected request has run (successfully, with a sound result) and has
\* been processed, step 2 is completed with the new result, and the
\* StepState and the records of step 1 are what they were when the Review
\* was raised.
C5_CorrectionLeavesStepOneAlone ==
    [][(/\ pc = "process" /\ pc' = "track"
        /\ sensemaker_result.status = "needs_correction"
        /\ sensemaker_result.affected_step = 2
        /\ 2 \in DOMAIN before_review.sm_step_states
        /\ new_info # << >>
        /\ new_info[1].success
        /\ ~IsSuspiciousResult(new_info[1].results))
       => LET ofStep1(mem) == SelectSeq(mem, LAMBDA e : e.step = 1)
              was == before_review
          IN /\ 2 \in DOMAIN sm_step_states'
             /\ sm_step_states'[2].status = "completed"
             /\ sm_step_states'[2].result = new_info[1].results
             /\ (1 \in DOMAIN sm_step_states') = (1 \in DOMAIN was.sm_step_states)
             /\ 1 \in DOMAIN was.sm_step_states
                   => sm_step_states'[1] = was.sm_step_states[1]
             /\ ofStep1(memory') = ofStep1(was.memory)
      ]_vars

\* C6: a Review for a step s that has records, answered with approve or
\* modify: the step is
\* reset before the corrected request runs, the run of the fix adds one
\* record for step s that carries the code and the outcome of the fix, and
\* the records that existed before the correction are all still there.
C6_CorrectionAddsRecordForStep ==
    [][(/\ pc = "process" /\ pc' = "track"
        /\ sensemaker_result.status = "needs_correction"
        /\ \E i \in 1..Len(before_review.memory) :
              before_review.memory[i].step = sensemaker_result.affected_step
        /\ new_info # << >>)
       => LET s == sensemaker_result.affected_step
              fresh == memory'[Len(memory')]
          IN /\ s \notin DOMAIN sm_step_states
             /\ Len(memory') = Len(before_review.memory) + 1
             /\ SubSeq(memory', 1, Len(before_review.memory))
                    = before_review.memory
             /\ fresh.step = s
             /\ fresh.code = new_info[1].code
             /\ fresh.success = new_info[1].success
             /\ new_info[1].success => fresh.result = new_info[1].results
      ]_vars

\* C7: a Review for a step whose StepState has result R, answered with
\* skip: the step's StepState becomes completed with result R and
\* user_accepted = true; no retrieval is dispatched, no record is added,
\* the other steps keep their StepState and the next decision call gets no
\* retrieval result.
C7_SkipMarksUserAccepted ==
    [][(/\ pc = "review" /\ pc' = "process"
        /\ sensemaker_result.affected_step \in DOMAIN sm_step_states)
       => LET s == sensemaker_result.affected_step
              R == sm_step_states[s].result
              Accepted(states) ==
                  /\ s \in DOMAIN states
                  /\ states[s].status = "completed"
                  /\ states[s].result = R
                  /\ "user_accepted" \in DOMAIN states[s]
                  /\ states[s].user_accepted = TRUE
          IN /\ Accepted(sm_step_states') \/ Accepted(step_states')
             /\ n_dispatch' = n_dispatch
             /\ memory' = memory
             /\ entries' = entries
             /\ \A t \in (DOMAIN sm_step_states \cup DOMAIN sm_step_states') \ {s} :
                  /\ t \in DOMAIN sm_step_states
                  /\ t \in DOMAIN sm_step_states'
                  /\ sm_step_states'[t] = sm_step_states[t]
             /\ new_info' = << >>
      ]_vars

\* C8: a retrieval that fails twice and succeeds on the third attempt,
\* with a retry budget of 3: the step ends completed and the history holds
\* three entries for that step, in order failed, failed, succeeded.
C8_ThreeAttemptsThreeRecords ==
    [][(/\ pc = "process" /\ pc' = "track"
        /\ config.max_code_retries = 3
        /\ sensemaker_result.status = "needs_info"
        /\ new_info # << >>
        /\ new_info[1].success
        /\ ~IsSuspiciousResult(new_info[1].results)
        /\ n_seek = 3)
       => LET s == sensemaker_result.current_step
              n == Len(memory)
          IN /\ StatusOf(sm_step_states', s) = "completed"
             /\ Len(memory') = n + 3
             /\ \A i \in 1..3 : memory'[n + i].step = s
             /\ ~memory'[n + 1].success
             /\ ~memory'[n + 2].success
             /\ memory'[n + 3].success
      ]_vars

\* C9: an Execute turn is one decision call, one dispatched retrieval and
\* one record added before the next decision: the records plus the one
\* retrieval that may be under way or waiting to be recorded always equal
\* the retrievals dispatched, and there are never more retrievals than
\* decisions.
C9_OneRetrievalOneRecord ==
    LET underway == IF pc = "seek" \/ (pc = "process" /\ new_info # << >>)
                    THEN 1 ELSE 0
    IN /\ Len(memory) + underway = n_dispatch
       /\ n_dispatch <= n_decisions
       /\ pc = "seek" => request # None
       /\ pc # "seek" => request = None /\ error_history = << >>

C9_Witness ==
    /\ pc = "process"
    /\ new_info # << >>
    /\ sensemaker_result.status = "needs_info"
    /\ n_decisions = 2
    /\ n_dispatch = 2
    /\ Len(memory) = 1

\* C10: in a turn that calls neither reset_step nor reset the current-step
\* pointer does not decrease, whatever step the collaborator requests and
\* also when the human skips a Review.
C10_PointerNeverDecreases ==
    [][~(pc = "review" /\ pc' = "seek")
       => /\ sm_current_step' >= sm_current_step
          /\ current_step' >= current_step
      ]_vars

\* C11: the step-attempt counter is zero right after an Execute decision
\* for a step other than the one the previous Execute decision named (or
\* after the first Execute decision), it is one higher after an Execute
\* decision that names the same step again, and nothing else changes it.
C11_AttemptCounterRule ==
    [][IF pc = "track" /\ sensemaker_result.status = "needs_info"
       THEN IF sensemaker_result.current_step # last_step
            THEN /\ step_retries' = 0
                 /\ last_step' = sensemaker_result.current_step
            ELSE /\ step_retries' = step_retries + 1
                 /\ last_step' = last_step
       ELSE /\ step_retries' = step_retries
            /\ last_step' = last_step
      ]_vars

C11_Witness ==
    /\ pc = "seek"
    /\ n_decisions = 2
    /\ sensemaker_result.status = "needs_info"
    /\ sensemaker_result.current_step = 2
    /\ last_step = 2
    /\ step_retries = 1
    /\ Len(memory) = 1
    /\ config.max_step_attempts = 2

\* C12: for every max_step_attempts >= 0, a retrieval is dispatched for a
\* step only while the number of consecutive requests of that step is at
\* most max_step_attempts, and the forced answer is produced only when
\* that number exceeds max_step_attempts.
C12_AbandonExactlyBeyondBudget ==
    /\ (pc = "seek" /\ sensemaker_result.status = "needs_info")
          => same_step_run <= config.max_step_attempts
    /\ (exit = "forced") => same_step_run > config.max_step_attempts

\* C13: one call of _seek_with_retries calls info_seeker.seek at most
\* max_code_retries times, every call after failures only; it returns at
\* the first successful result, or after the max_code_retries-th failure,
\* and what it returns is the result of its last call unchanged.
C13_SeekWithRetries ==
    [][(pc = "seek") =>
        /\ n_seek' = n_seek + 1
        /\ n_seek' <= config.max_code_retries
        /\ Len(error_history) = n_seek
        /\ seek_new_info' # << >>
        /\ (pc' = "process") <=>
              (seek_new_info'[1].success
                 \/ n_seek' = config.max_code_retries)
        /\ (pc' = "process") => new_info' = seek_new_info'
        /\ (pc' # "process") => (pc' = "seek" /\ new_info' = new_info)
      ]_vars

C13_Witness ==
    /\ pc = "process"
    /\ config.max_code_retries = 3
    /\ n_seek = 3
    /\ new_info = <<InfoSeekerResult(CodeOf(ProposedFix), "err2", FALSE)>>
    /\ request_with_context[Len(request_with_context)].text = "err1"

\* C14: the request of attempt 1 is the original request alone; the
\* request of attempt k >= 2 starts with the original request and then
\* carries the failure texts of the attempts 1..k-1, all of them and in
\* attempt order; a failing attempt's text joins the end of the list.
C14_RequestCarriesAllFailures ==
    [][(pc = "seek" /\ n_seek' = n_seek + 1) =>
        LET sent == request_with_context'
            k == n_seek'
            IsAttemptLine(l) == l.label # ""
            failures == SelectSeq(sent, IsAttemptLine)
        IN  /\ sent[1] = [label |-> "", text |-> request]
            /\ (k = 1) => Len(sent) = 1
            /\ Len(failures) = k - 1
            /\ \A i \in 1..(k - 1) :
                  /\ failures[i].text = error_history[i]
                  /\ failures[i] = sent[Len(sent) - (k - 1) + i]
            /\ (pc' = "seek") =>
                  error_history' =
                      Append(error_history, seek_new_info'[1].results)
      ]_vars

C14_Witness ==
    /\ n_seek = 3
    /\ Len(request_with_context) = 5
    /\ request_with_context[1].text = "edited"
    /\ request_with_context[4] = [label |-> "- Attempt 1: ", text |-> "err2"]
    /\ request_with_context[5] = [label |-> "- Attempt 2: ", text |-> "err1"]
    /\ seek_new_info[1].success

\* C15: record_result(step, code, result, success, error) appends exactly
\* one record, for that step, to the end of the history, sets the step's
\* StepState to completed on success and to failed on failure, and leaves
\* the pointer and every other step's StepState as they were.
C15_RecordResultEffect ==
    [][\A step \in Steps, res \in ArgResults, success \in BOOLEAN,
          error \in ArgErrors :
          RecordResult(step, "code_req", res, success, error) =>
            /\ Len(entries') = Len(entries) + 1
            /\ SubSeq(entries', 1, Len(entries)) = entries
            /\ entries'[Len(entries')].step = step
            /\ entries'[Len(entries')].success = success
            /\ ~entries'[Len(entries')].is_internal_context
            /\ step \in DOMAIN step_states'
            /\ step_states'[step].step = step
            /\ step_states'[step].status =
                  (IF success THEN "completed" ELSE "failed")
            /\ \A other \in Steps \ {step} :
                  /\ (other \in DOMAIN step_states')
                        <=> (other \in DOMAIN step_states)
                  /\ (other \in DOMAIN step_states)
                        => step_states'[other] = step_states[other]
            /\ current_step' = current_step
      ]_vars

C15_Witness ==
    /\ Len(entries) = 2
    /\ entries[1].step = 1 /\ entries[1].success
    /\ entries[2].step = 1 /\ ~entries[2].success
    /\ ~entries[2].is_internal_context
    /\ StatusOf(step_states, 1) = "failed"
    /\ StatusOf(step_states, 2) = "needs_clarification"
    /\ current_step = 2

\* C16: reset_step(step) removes the step's StepState, so that the step
\* reads as pending, moves the pointer to step - 1 exactly when the pointer
\* was at or beyond step, and leaves the history and every other step's
\* StepState as they were.
C16_ResetStepEffect ==
    [][\A step \in Steps :
          ResetStep(step) =>
            /\ step \notin DOMAIN step_states'
            /\ StatusOf(step_states', step) = "pending"
            /\ current_step' =
                  (IF current_step >= step THEN step - 1 ELSE current_step)
            /\ entries' = entries
            /\ \A other \in Steps \ {step} :
                  /\ (other \in DOMAIN step_states')
                        <=> (other \in DOMAIN step_states)
                  /\ (other \in DOMAIN step_states)
                        => step_states'[other] = step_states[other]
      ]_vars

C16_Witness ==
    /\ Len(entries) = 2
    /\ entries[1].step = 1 /\ ~entries[1].is_internal_context
    /\ entries[2].step = 2 /\ ~entries[2].is_internal_context
    /\ 2 \notin DOMAIN step_states
    /\ StatusOf(step_states, 1) = "completed"
    /\ current_step = 1

\* C17: whenever the loop starts, for a query or for an approved replan,
\* the execution state is empty: the pointer is 0, there are no StepStates
\* and no records, in the ExecutionState and in the sensemaker's stores.
C17_LoopStartsOnEmptyState ==
    (pc = "process" /\ sensemaker_result = Unset) =>
        /\ sm_current_step = 0
        /\ sm_step_states = NoStepStates
        /\ memory = << >>
        /\ current_step = 0
        /\ step_states = NoStepStates
        /\ entries = << >>

\* C18: when a retrieval comes back to the loop as failed, the next call of
\* process appends a failed record for the requested step, and the state
\* of that step shows the failure when the next decision is taken.
C18_FailedRetrievalIsRecorded ==
    [][(pc = "process" /\ pc' = "track"
          /\ new_info # << >> /\ ~new_info[1].success) =>
        LET requested ==
                IF sensemaker_result.status = "needs_info"
                THEN sensemaker_result.current_step
                ELSE sensemaker_result.affected_step
            Recorded(before, after) ==
                /\ Len(after) = Len(before) + 1
                /\ SubSeq(after, 1, Len(before)) = before
                /\ after[Len(after)].step = requested
                /\ ~after[Len(after)].success
        IN  /\ Recorded(memory, memory') \/ Recorded(entries, entries')
            /\ \/ StatusOf(sm_step_states', requested) = "failed"
               \/ StatusOf(step_states', requested) = "failed"
      ]_vars

\* C19: in every reachable state a step is completed or failed only if the
\* history holds a record for it, and then its status and result agree
\* with the most recent record of that step; for the sensemaker's stores
\* and for the ExecutionState alike.
C19_StepStatesFollowHistory ==
    LET Follows(states, history) ==
            \A s \in DOMAIN states :
                states[s].status \in {"completed", "failed"} =>
                    LET records == {i \in 1..Len(history) :
                                        history[i].step = s}
                    IN  /\ records # {}
                        /\ LET last == CHOOSE i \in records :
                                           \A j \in records : j <= i
                           IN  /\ (states[s].status = "completed")
                                     <=> history[last].success
                               /\ history[last].success
                                     => states[s].result = history[last].result
    IN  /\ Follows(sm_step_states, memory)
        /\ Follows(step_states,
                   SelectSeq(entries, LAMBDA e : ~e.is_internal_context))

C21_TruncationAtMaxChars ==
    LET CharAt(str, i) ==
            str[CHOOSE k \in 1..Len(str) :
                    /\ StrLen(SubSeq(str, 1, k - 1)) < i
                    /\ i <= StrLen(SubSeq(str, 1, k))].char
        SizeControlled(out) ==
            IF StrLen(result_str) > max_chars
            THEN /\ out.truncated
                 /\ StrLen(out.result) = max_chars
                 /\ \A i \in 1..max_chars :
                       CharAt(out.result, i) = CharAt(result_str, i)
            ELSE /\ ~out.truncated
                 /\ out.result = result_str
    IN  /\ \A i \in 1..Len(worker_serialized) :
              SizeControlled(worker_serialized[i])
        /\ \A i \in 1..Len(query_serialized) :
              SizeControlled(query_serialized[i])
        /\ (worker_serialized # << >> /\ query_serialized # << >>)
              => worker_serialized = query_serialized

C21_Witness ==
    /\ result_str = <<Run("a", max_chars - 1), Run("b", 2)>>
    /\ worker_serialized =
          <<[result |-> <<Run("a", max_chars - 1), Run("b", 1)>>,
             truncated |-> TRUE]>>
    /\ query_serialized = worker_serialized

\* C22: for every outcome of the worker other than a response (launcher
\* missing, timeout, non-zero exit, output that is no valid response
\* object) execute_sandboxed raises nothing and returns an ExecutionResult
\* with an error and no result.
C22_SandboxNeverRaises ==
    [][\A outcome \in ProcOutcomes \ {"response"} :
        \A request_valid \in BOOLEAN, code \in SandboxCodes,
           datasets_found \in BOOLEAN, raises \in BOOLEAN,
           value \in SandboxValues :
            ExecuteSandboxed(outcome, request_valid, code, datasets_found,
                             raises, value) =>
                /\ ~IsRaised(execution_result'[1])
                /\ execution_result'[1].error # None
                /\ execution_result'[1].result = None
      ]_vars

\* C23: every invocation of the worker that read a request has written
\* exactly one response object, with the fields result, error and
\* truncated, whatever path it took.
C23_OneResponsePerInvocation ==
    worker.ran =>
        /\ Len(worker.stdout) = 1
        /\ DOMAIN worker.stdout[1] = {"result", "error", "truncated"}

\* C24: when the requested primary dataset is not among the datasets in
\* /data, the worker answers with a dataset-absent error and runs the
\* snippet on no dataset.
C24_AbsentDatasetIsAnError ==
    (/\ worker.ran
     /\ worker.request_valid
     /\ worker.code # ""
     /\ worker.primary_source \notin worker.datasets) =>
        /\ worker.df = None
        /\ Len(worker.stdout) = 1
        /\ worker.stdout[1].error = "No datasets found in /data"
        /\ worker.stdout[1].result = None

\* the error the execution behind a seek produced, None when it produced
\* none
ExecutionError(exec) ==
    IF "error" \in DOMAIN exec /\ exec.error \notin {None, ""}
    THEN exec.error ELSE None

\* C25: seek never lets an exception out, and the InfoSeekerResult it
\* returns has success false exactly when the execution produced an error.
C25_SeekReturnsNeverRaises ==
    (seek_result # << >>) =>
        /\ ~IsRaised(seek_result[1])
        /\ (exec_result # << >>) =>
              (seek_result[1].success = FALSE
                  <=> ExecutionError(exec_result[1]) # None)

\* the dataset is held before call i: an earlier call loaded it and no
\* disconnect came in between
HeldBefore(i) ==
    \E j \in 1..(i - 1) :
        /\ calls[j].op # "disconnect"
        /\ ~calls[j].raised
        /\ \A k \in (j + 1)..(i - 1) : calls[k].op # "disconnect"

\* C26: over any sequence of connect, disconnect, get_schema and query
\* calls the dataset is loaded exactly by the calls that find it not held
\* and read it: consecutive connects load once, disconnect releases, and
\* a query or get_schema after a disconnect loads again once.
C26_LoadOnlyWhenNotHeld ==
    /\ loads = Cardinality({i \in 1..Len(calls) :
                    /\ calls[i].op # "disconnect"
                    /\ ~calls[i].raised
                    /\ ~HeldBefore(i)})
    /\ (data # None) <=> HeldBefore(Len(calls) + 1)
    /\ \A i \in 1..Len(calls) : calls[i].raised => ~HeldBefore(i)

\* connect, connect, disconnect, query: two loads
C26_Witness ==
    /\ Len(calls) = 4
    /\ calls[1] = Call("connect", FALSE)
    /\ calls[2] = Call("connect", FALSE)
    /\ calls[3] = Call("disconnect", FALSE)
    /\ calls[4] = Call("query", FALSE)
    /\ loads = 2
    /\ data = DataFrame

\* the loop's state: decisions made, retrievals dispatched, both stores
LoopState ==
    <<n_decisions, n_dispatch, n_seek, memory, sm_step_states,
      sm_current_step, step_states, entries, current_step>>

\* C27: a human abort at the plan review, the correction review or the
\* final review ends the run: it returns the cancelled result and the
\* abort changes nothing of the loop's state.
C27_AbortEndsRun ==
    [][(\/ ApprovePlan(None, {})
        \/ AbortCorrection
        \/ FinalReview(None)) =>
            /\ pc' = "finished"
            /\ run_return' = <<CANCELLED_RESULT>>
            /\ LoopState' = LoopState]_vars

\* C28: while a human decision is pending nothing progresses: before the
\* plan is approved the loop has not started, a loop that has started
\* runs on an approved plan, and from a Review response to the human's
\* answer no retrieval is dispatched and no StepState, pointer or record
\* changes; only the human's answer ends the wait.
C28_NothingProgressesWhilePending ==
    /\ [](/\ (pc = "plan_review") =>
                (/\ run_log_plan = << >>
                 /\ LoopState = <<0, 0, 0, << >>, NoStepStates, 0,
                                  NoStepStates, << >>, 0>>)
          /\ (n_decisions > 0) => run_log_plan # << >>
          /\ (pc = "review") =>
                (/\ before_review.taken
                 /\ memory = before_review.memory
                 /\ sm_step_states = before_review.sm_step_states
                 /\ sm_current_step = before_review.sm_current_step
                 /\ step_states = before_review.step_states
                 /\ entries = before_review.entries
                 /\ current_step = before_review.current_step
                 /\ n_seek = 0))
    /\ [][(/\ (pc = "plan_review") =>
                \E decision \in PlanDecisions, changed \in ChangedSteps :
                    ApprovePlan(decision, changed)
           /\ (pc = "review") =>
                (SkipCorrection \/ \E answer \in HumanAnswers :
                                      ApplyCorrection(answer))
           /\ (pc = "returned") =>
                (HandleReplan \/ \E decision \in FinalDecisions :
                                    FinalReview(decision)))]_vars

\* a Review is pending after a retrieval was recorded
C28_Witness ==
    /\ pc = "review"
    /\ Len(memory) >= 1
    /\ n_dispatch >= 1
    /\ run_log_plan # << >>

\* step numbers of a plan are unique
UniqueSteps(p) ==
    \A i, j \in 1..Len(p) : (p[i].step = p[j].step) => (i = j)

\* C29: handle_add_new_step keeps the step numbers of a plan unique: the
\* number of the new step differs from every number the plan had.
C29_StepNumbersStayUnique ==
    UniqueSteps(plan)

\* C30: on a Review the request dispatched to retrieval is the proposed
\* fix when the human approves and the human-edited text when the human
\* modifies, the empty text included.
C30_CorrectedRequestIsTheAnswer ==
    [][\A answer \in HumanAnswers :
          ApplyCorrection(answer) =>
              request' = (IF answer[1] = "approve"
                          THEN sensemaker_result.proposed_correction
                          ELSE answer[2])]_vars

\* C31: when a Review for step s was approved or modified while the
\* attempt counter tracks s, the counter is zero when the loop next asks
\* for a decision.
C31_ReviewResetsAttemptCounter ==
    (/\ pc = "process"
     /\ sensemaker_result.status = "needs_correction"
     /\ n_dispatch > 0
     /\ new_info # << >>
     /\ last_step = sensemaker_result.affected_step) =>
        step_retries = 0

\* C32: an exec query runs the snippet on a copy: whatever the snippet
\* does to its df, and whether it succeeds or fails, the data source
\* holds the dataset as it was loaded, before and after every query.
C32_QueryLeavesDatasetUnchanged ==
    /\ data \in {None, DataFrame}
    /\ (/\ calls # << >>
        /\ calls[Len(calls)] = Call("query", FALSE)) => data = DataFrame

\* a snippet ran on the dataset loaded by an earlier call: exec queries
\* that gave a result and that failed
C32_Witness ==
    /\ Len(calls) >= 2
    /\ calls[1] = Call("connect", FALSE)
    /\ calls[Len(calls)] = Call("query", FALSE)
    /\ exec_result # << >>
    /\ exec_result[1] = [error |-> "Code execution failed"]
    /\ data = DataFrame

\* C33: the outcome of a retrieval dispatched for an Execute decision on
\* step s is recorded against step s, whether the collaborator asked for
\* the step the pointer was at, an earlier or a later one.
C33_OutcomeRecordedAgainstRequestedStep ==
    [][(/\ pc = "process"
        /\ pc' = "track"
        /\ new_info # << >>
        /\ sensemaker_result.status = "needs_info") =>
            /\ Len(memory') = Len(memory) + 1
            /\ memory'[Len(memory')].step = sensemaker_result.current_step]_vars

\* C34: for every retry budget, 0 included, _seek_with_retries returns an
\* InfoSeekerResult: it ends in no exception and what it hands back to
\* the loop is a result.
C34_SeekWithRetriesReturnsAResult ==
    [][(pc = "seek" /\ pc' # "seek") =>
          /\ pc' = "process"
          /\ exit' = exit
          /\ new_info' # << >>
          /\ new_info'[1].success \in BOOLEAN]_vars

\* C35: _sensemaking_loop makes at most max_iterations decision calls,
\* one per iteration whatever the response (a Review turn, skipped or
\* not, consumes one), and when the bound is reached without Complete
\* it calls get_answer exactly once and returns that answer.
C35_AtMostMaxIterationsDecisions ==
    /\ n_decisions = iteration
    /\ n_decisions <= config.max_iterations
    /\ (pc # "returned") => (n_get_answer = 0)
    /\ (pc = "returned" /\ exit = "complete") =>
          (/\ n_get_answer = 0
           /\ result[1].answer = CompleteResponse.answer)
    /\ (pc = "returned" /\ exit # "complete") =>
          (/\ n_decisions = config.max_iterations
           /\ n_get_answer = 1
           /\ result = <<[answer |-> FinalAnswer.answer,
                          supporting_evidence |->
                              FinalAnswer.supporting_evidence]>>)

\* the bound was reached after a run whose last turn was a skipped Review
C35_Witness ==
    /\ pc = "returned"
    /\ exit = "max_iterations"
    /\ n_decisions = MaxIterations
    /\ n_get_answer = 1
    /\ n_dispatch >= 1
    /\ sensemaker_result.status = "needs_correction"
    /\ new_info = << >>

\* C39: when a Review names a step that has no StepState and the human
\* chooses skip, the execution state is left as it was (no StepState is
\* created, the pointer and the history are untouched) and the loop goes
\* on to the next decision with no new retrieval result.
C39_SkipOfUnknownStepChangesNothing ==
    [][(/\ pc = "review"
        /\ pc' = "process"
        /\ sensemaker_result.affected_step \notin DOMAIN step_states) =>
          /\ step_states' = step_states
          /\ current_step' = current_step
          /\ entries' = entries
          /\ sm_step_states' = sm_step_states
          /\ sm_current_step' = sm_current_step
          /\ memory' = memory
          /\ new_info' = << >>
          /\ exit' = exit]_vars

\* a retrieval result was filed, the next decision was a Review of a step
\* without a StepState, and the human skipped it
C39_Witness ==
    /\ pc = "process"
    /\ sensemaker_result.status = "needs_correction"
    /\ sensemaker_result.affected_step \notin DOMAIN step_states
    /\ before_review # NoSnapshot
    /\ memory # << >>
    /\ new_info = << >>

\* C36: in Orchestrator.run the verification held is the verification of
\* the current result, every final review shows the verification of the
\* current result (after a revise or replan that replaced the result the
\* verifier has run again), and an accepted run returns the result with
\* the verification of that same result.
C36_VerificationIsOfCurrentResult ==
    /\ [](run_frame.verification # << >> =>
             run_frame.verification[1].result = run_frame.result[1])
    /\ [][pc = "final_review" =>
             /\ run_frame'.shown # << >>
             /\ run_frame'.shown[1].result = run_frame.result[1]]_vars
    /\ []((pc = "finished" /\ run_frame.final_decision = "accept") =>
             /\ run_return[1].answer = run_frame.result[1].answer
             /\ run_return[1].verification.result = run_frame.result[1]
             /\ run_return[1].verification.result.answer =
                   run_return[1].answer)

\* a first result was verified, a revise replaced it by a different one,
\* and the human accepted at the next final review
C36_Witness ==
    /\ pc = "finished"
    /\ run_frame.final_decision = "accept"
    /\ run_frame.n_final_review = 1
    /\ run_frame.n_seek = 1
    /\ run_return[1].answer = FinalAnswer.answer
    /\ run_return[1].verification.result.answer = FinalAnswer.answer

\* C37: when the human revises an existing step at final review, the
\* revised request is executed exactly once whatever its outcome, the
\* outcome changes neither the StepStates, the pointer nor the record
\* history, and the loop is re-entered with no new retrieval result.
C37_RevisionOutcomeIsNotFiled ==
    [][(pc = "final_review" /\ pc' = "process"
        /\ run_frame'.caller = "revise") =>
          /\ run_frame'.n_seek = run_frame.n_seek + 1
          /\ run_frame'.new_info # << >>
          /\ sm_step_states' = sm_step_states
          /\ sm_current_step' = sm_current_step
          /\ memory' = memory
          /\ step_states' = step_states
          /\ current_step' = current_step
          /\ entries' = entries
          /\ plan' = plan
          /\ new_info' = << >>
          /\ iteration' = 0]_vars

\* the revised request failed, was not retried, and the loop starts again
\* on a history that holds records
C37_Witness ==
    /\ pc = "process"
    /\ run_frame.caller = "revise"
    /\ run_frame.n_seek = 1
    /\ run_frame.new_info # << >>
    /\ ~run_frame.new_info[1].success
    /\ memory # << >>
    /\ new_info = << >>
    /\ iteration = 0

\* C38: a replan that the human cancels at the suggestion prompt, rejects
\* or aborts at plan review (as every step between final review and plan
\* review) leaves the execution state, the current plan and the current
\* result unchanged; the state is cleared when the new plan is approved,
\* before its first decision call.
C38_CancelledReplanChangesNothing ==
    [][/\ (/\ pc \in {"final_review", "replan_review"}
           /\ pc' \in {"final_review", "replan_review"}
           /\ run_frame'.final_decision = "replan") =>
             /\ memory' = memory
             /\ sm_step_states' = sm_step_states
             /\ sm_current_step' = sm_current_step
             /\ step_states' = step_states
             /\ current_step' = current_step
             /\ entries' = entries
             /\ plan' = plan
             /\ run_frame'.result = run_frame.result
       /\ (pc = "replan_review" /\ pc' = "process") =>
             /\ run_frame'.decision = "approve"
             /\ memory' = << >>
             /\ sm_step_states' = NoStepStates
             /\ sm_current_step' = 0
             /\ n_decisions' = 0
             /\ plan' = plan
             /\ run_frame'.result = run_frame.result]_vars

\* the human asked for a replan on a history that holds records, edited
\* the new plan and then rejected it
C38_Witness ==
    /\ pc = "final_review"
    /\ run_frame.final_decision = "replan"
    /\ run_frame.decision = "reject"
    /\ run_frame.caller = "run"
    /\ run_frame.result # << >>
    /\ memory # << >>
    /\ sm_step_states # NoStepStates
    /\ plan = LoopPlan

====
